---- MODULE Spec2Model ----
(***************************************************************************)
(* financeAPI: the recurring-transaction engine and the budget ledger.    *)
(*                                                                         *)
(* Transactions and budgets are the documents of the two collections; a   *)
(* handler of the HTTP layer or of the recurring service is one action.   *)
(* Amounts are whole currency units, dates are (month, day) pairs with    *)
(* the year folded into the month index, a description is a sequence of   *)
(* characters in which the fixed suffix " (Recorrente)" is one character. *)
(***************************************************************************)
EXTENDS Integers, Sequences, FiniteSets, TLC

\* ------------------------------------------------------------------ bounds
MaxTx == 3            \* transaction documents ever inserted in one behaviour

\* ------------------------------------------------------------ input sets
Users      == {"u1", "u2"}
Categories == {"c1", "c2"}
Types      == {"income", "expense"}
Amounts    == {1, 2}
Months     == {1, 2}
Days       == {1, 2}
BudgetIds  == {"b1", "b2"}
TxIds      == 1..MaxTx

NoBudget == "none"    \* budgetId: null
NoDay    == 0         \* recurringDay: undefined

Dates == [m : Months, d : Days]

\* --------------------------------------------------------- descriptions
Suffix == "(R)"       \* the text " (Recorrente)" as one character

TemplateDescs == {<<"a">>, <<"a", "*">>, <<".">>}
UserDescs     == TemplateDescs \cup {<<"a", Suffix>>}

\* `${description} (Recorrente)`
Materialized(desc) == desc \o <<Suffix>>

\* The pattern `^${description} \\(Recorrente\\)$`: the description is pasted
\* unescaped, so "." and "*" keep their regular-expression meaning, while
\* the suffix is escaped and matches itself only.
RegexOf(desc) ==
    [i \in 1..Len(desc) |->
        IF desc[i] = "." THEN [k |-> "any", c |-> "."]
        ELSE IF desc[i] = "*" THEN [k |-> "star", c |-> "*"]
        ELSE [k |-> "lit", c |-> desc[i]]]
    \o <<[k |-> "lit", c |-> Suffix]>>

\* one pattern atom against one character ("." matches any single character,
\* the suffix is several characters)
AtomMatches(atom, ch) ==
    IF atom.k = "any" THEN ch # Suffix ELSE atom.c = ch

\* anchored match of a pattern (atoms, each optionally followed by "*")
RECURSIVE RegexMatches(_, _)
RegexMatches(pat, str) ==
    IF pat = <<>> THEN str = <<>>
    ELSE IF Len(pat) >= 2 /\ pat[2].k = "star"
         THEN \/ RegexMatches(Tail(Tail(pat)), str)
              \/ /\ str # <<>>
                 /\ AtomMatches(pat[1], str[1])
                 /\ RegexMatches(pat, Tail(str))
         ELSE /\ str # <<>>
              /\ AtomMatches(pat[1], str[1])
              /\ RegexMatches(Tail(pat), Tail(str))

\* ------------------------------------------------------------------ state
VARIABLES
    txs,        \* the transactions collection: id -> document
    budgets,    \* the budgets collection: id -> document
    nextId,     \* the next transaction _id (ids are never reused)
    today,      \* the calendar day the server clock shows
    runners,    \* the state of each in-flight engine run (cron, debug)
    mat,        \* history: <<template id, day, new id, template description>> of
                \* every materialization
    last,       \* history: the last handler that completed (op, the document and
                \* budget it named, runs in a row, whether the engine ran today)
    pre,        \* history: every budget's spent before the last handler
    hist,       \* history: per transaction id, what its handlers added to each
                \* budget's spent in all, and whether its amount alone was edited
    report,     \* history: what the engine run returned, if the last handler was one
    goals,      \* the goals collection: id -> document
    shares,     \* the goalshares collection: id -> document
    nextShare,  \* the next GoalShare _id (ids are never reused)
    calls,      \* the sharing requests in flight, one slot per client
    resp        \* history: the last goal or sharing request that was answered

shareVars == <<goals, shares, nextShare, calls, resp>>

vars == <<txs, budgets, nextId, today, runners, mat, last, pre, hist, report,
          goals, shares, nextShare, calls, resp>>

\* the Transaction schema
Tx(u, desc, amt, ty, cat, dt, rec, rday, bud) ==
    [userId |-> u, description |-> desc, amount |-> amt, type |-> ty,
     category |-> cat, date |-> dt, isRecurring |-> rec, recurringDay |-> rday,
     budgetId |-> bud]

\* (mutant) an update that only ever adds to spent
IncSpentOnlyUp(bs, id, delta) ==
    IF id \in DOMAIN bs /\ delta > 0
    THEN [bs EXCEPT ![id].spent = @ + delta]
    ELSE bs

\* (mutant) an update that stores the amount instead of adding it
IncSpentOverwrites(bs, id, delta) ==
    IF id \in DOMAIN bs
    THEN [bs EXCEPT ![id].spent = delta]
    ELSE bs

\* Budget.findByIdAndUpdate(id, {$inc: {spent: delta}}): one atomic update of
\* the document, nothing when no budget has this id
IncSpent(bs, id, delta) ==
    IF id \in DOMAIN bs
    THEN [bs EXCEPT ![id].spent = @ + delta]
    ELSE bs

Spent(bs) == [b \in DOMAIN bs |-> bs[b].spent]

\* what the history keeps of the document a handler found
NoOld == [amount |-> 0, type |-> "none", isRecurring |-> FALSE]
OldOf(doc) == [amount |-> doc.amount, type |-> doc.type, isRecurring |-> doc.isRecurring]

\* the history of transaction id after a handler took the budgets from bs to cs
NoHist == [id \in TxIds |-> [net |-> [b \in BudgetIds |-> 0], amended |-> FALSE]]
Booked(h, id, bs, cs, amended) ==
    [h EXCEPT ![id] = [net |-> [b \in BudgetIds |->
                                  IF b \in DOMAIN bs /\ b \in DOMAIN cs
                                  THEN @.net[b] + cs[b].spent - bs[b].spent
                                  ELSE @.net[b]],
                       amended |-> @.amended \/ amended]]

\* the history of transaction id after a handler sent $inc: {spent: delta}
\* to budget b
Owed(h, id, bs, b, delta) ==
    IF b \in DOMAIN bs /\ b \in BudgetIds
    THEN [h EXCEPT ![id].net[b] = @ + delta]
    ELSE h

Insert(ts, id, doc) == [i \in DOMAIN ts \cup {id} |-> IF i = id THEN doc ELSE ts[i]]
Remove(ts, id) == [i \in DOMAIN ts \ {id} |-> ts[i]]

\* ------------------------------------------------- recurring service
\* Transaction.find({isRecurring: true, recurringDay: currentDay})
DueTemplates(ts, day) ==
    {id \in DOMAIN ts : ts[id].isRecurring /\ ts[id].recurringDay = day.d}

\* wasProcessedToday: is there a non-recurring transaction of the same user,
\* amount, type and category, dated today, whose description matches the
\* pattern built from the template's description
WasProcessedToday(ts, tpl, day) ==
    \E id \in DOMAIN ts :
        /\ ts[id].userId = tpl.userId
        /\ RegexMatches(RegexOf(tpl.description), ts[id].description)
        /\ ts[id].amount = tpl.amount
        /\ ts[id].type = tpl.type
        /\ ts[id].category = tpl.category
        /\ ts[id].date = day
        /\ ts[id].isRecurring = FALSE

\* new Transaction({...}) of the loop body; a budget reference that no longer
\* populates gives budgetId undefined, which the schema defaults to null
NewTransaction(tpl, bs, day) ==
    Tx(tpl.userId, Materialized(tpl.description), tpl.amount, tpl.type,
       tpl.category, day, FALSE, NoDay,
       IF tpl.budgetId \in DOMAIN bs THEN tpl.budgetId ELSE NoBudget)

FailPoints == {"none", "check", "save", "budget"}

RunStart(ts, bs, nid) ==
    [txs |-> ts, budgets |-> bs, nextId |-> nid, processed |-> 0, errors |-> 0,
     details |-> <<>>, created |-> {}, attempted |-> <<>>]

ErrorEntry(st, tid) ==
    [st EXCEPT !.errors = @ + 1,
               !.details = Append(@, [originalId |-> tid, newId |-> 0, status |-> "error"]),
               !.attempted = Append(@, tid)]

\* the body of the for loop for one template snapshot, with the storage call
\* that throws (if any)
ProcessOne(st, tid, tpl, day, f) ==
    IF f = "check" THEN ErrorEntry(st, tid)
    ELSE IF WasProcessedToday(st.txs, tpl, day)
    THEN [st EXCEPT !.attempted = Append(@, tid)]
    ELSE IF f = "save" THEN ErrorEntry(st, tid)
    ELSE LET new   == NewTransaction(tpl, st.budgets, day)
             saved == [st EXCEPT !.txs = Insert(@, st.nextId, new),
                                 !.nextId = @ + 1,
                                 !.created = @ \cup {<<tid, st.nextId>>}]
         IN  IF new.type = "expense" /\ new.budgetId # NoBudget
             THEN IF f = "budget" THEN ErrorEntry(saved, tid)
                  ELSE [saved EXCEPT
                          !.budgets = IncSpent(@, new.budgetId, new.amount),
                          !.processed = @ + 1,
                          !.details = Append(@, [originalId |-> tid, newId |-> st.nextId,
                                                 status |-> "success"]),
                          !.attempted = Append(@, tid)]
             ELSE [saved EXCEPT
                          !.processed = @ + 1,
                          !.details = Append(@, [originalId |-> tid, newId |-> st.nextId,
                                                 status |-> "success"]),
                          !.attempted = Append(@, tid)]

RECURSIVE SetToSeq(_)
SetToSeq(S) ==
    IF S = {} THEN <<>>
    ELSE LET m == CHOOSE x \in S : \A y \in S : x <= y
         IN  <<m>> \o SetToSeq(S \ {m})

\* (mutant) the loop without the inner try/catch: the first failure ends it
RECURSIVE RunLoopAborting(_, _, _, _, _)
RunLoopAborting(st, queue, snapshot, day, fails) ==
    IF queue = <<>> \/ st.errors > 0 THEN st
    ELSE LET done == CHOOSE s \in {ProcessOne(st, Head(queue), snapshot[Head(queue)], day,
                                               fails[Head(queue)])} : TRUE
         IN  RunLoopAborting(done, Tail(queue), snapshot, day, fails)

\* the for loop over the templates found at the start of the run
RECURSIVE RunLoop(_, _, _, _, _)
RunLoop(st, queue, snapshot, day, fails) ==
    IF queue = <<>> THEN st
    ELSE LET done == CHOOSE s \in {ProcessOne(st, Head(queue), snapshot[Head(queue)], day,
                                               fails[Head(queue)])} : TRUE
         IN  RunLoop(done, Tail(queue), snapshot, day, fails)

\* what processRecurringTransactions hands back: nothing at all when no
\* template is due (the early return), the results object otherwise
NoFailure == [id \in TxIds |-> "none"]

NoReport ==
    [returned |-> FALSE, processed |-> 0, errors |-> 0, details |-> <<>>,
     created |-> {}, due |-> {}, attempted |-> <<>>, first |-> FALSE,
     clean |-> FALSE, fails |-> NoFailure]

\* the results object, with what the run found when it started: the due
\* templates, whether it is the first run of the day, whether no transaction
\* was dated today, and which storage calls were going to throw
ReportOf(st, due, first, clean, fails) ==
    [returned |-> TRUE, processed |-> st.processed, errors |-> st.errors,
     details |-> st.details, created |-> st.created, due |-> due,
     attempted |-> st.attempted, first |-> first, clean |-> clean, fails |-> fails]

\* an engine run between calls: where it is in the loop, the templates it
\* found and has not processed yet, and the document it just saved
Idle == [pc |-> "idle", queue |-> <<>>, snapshot |-> <<>>, newId |-> 0]

Runners == {"cron", "debug"}

\* runs in a row with no other handler in between (counted up to two)
RunsInARow == IF last.op = "run" /\ last.seq >= 1 THEN 2 ELSE 1

\* processRecurringTransactions as one uninterrupted call
RunEngine(fails) ==
    \E due \in {DueTemplates(txs, today)} :
    \E st \in {RunLoop(RunStart(txs, budgets, nextId), SetToSeq(due), txs, today, fails)} :
        /\ \A r \in Runners : runners[r].pc = "idle"
        /\ st.nextId <= MaxTx + 1
        /\ txs' = st.txs
        /\ budgets' = st.budgets
        /\ nextId' = st.nextId
        /\ mat' = mat \cup {<<c[1], today, c[2], txs[c[1]].description>> : c \in st.created}
        /\ last' = [op |-> "run", id |-> 0, bud |-> NoBudget, seq |-> RunsInARow,
                    ran |-> TRUE, old |-> NoOld]
        /\ pre' = Spent(budgets)
        /\ report' = IF due = {} THEN NoReport
                      ELSE ReportOf(st, due, ~last.ran,
                                    \A id \in DOMAIN txs : txs[id].date # today, fails)
        /\ UNCHANGED <<today, runners, hist>>
        /\ UNCHANGED shareVars

\* ------------------------------------------------ pausing a template
\* the paths of the Transaction schema: save() stores no other
SchemaPaths ==
    {"userId", "description", "amount", "type", "category", "date", "isRecurring",
     "recurringDay", "budgetId"}

\* transaction.isPaused = flag; await transaction.save()
SavedWithPause(doc, flag) ==
    LET set == [f \in DOMAIN doc \cup {"isPaused"} |->
                  IF f = "isPaused" THEN flag ELSE doc[f]]
    IN  [f \in DOMAIN set \cap SchemaPaths |-> set[f]]

\* pauseRecurringTransaction (flag TRUE) and resumeRecurringTransaction
\* (flag FALSE); a transaction that is not a template of the user throws
SetPaused(op, u, id, flag) ==
    /\ id \in DOMAIN txs
    /\ txs[id].userId = u
    /\ txs[id].isRecurring
    /\ \A r \in Runners : runners[r].pc = "idle"
    /\ txs' = [txs EXCEPT ![id] = SavedWithPause(@, flag)]
    /\ last' = [op |-> op, id |-> id, bud |-> NoBudget, seq |-> 0, ran |-> last.ran,
                old |-> NoOld]
    /\ pre' = Spent(budgets)
    /\ report' = NoReport
    /\ UNCHANGED <<budgets, nextId, today, runners, mat, hist>>
    /\ UNCHANGED shareVars

PauseRecurring(u, id) == SetPaused("pause", u, id, TRUE)

ResumeRecurring(u, id) == SetPaused("resume", u, id, FALSE)

\* --------------------------------------------------- transaction routes
\* "Reverter valor do orçamento": an expense with a budget is taken off it
Reverted(bs, doc) ==
    IF doc.type = "expense" /\ doc.budgetId # NoBudget
    THEN IncSpent(bs, doc.budgetId, -doc.amount)
    ELSE bs

\* (mutant) the amount is put on the budget whatever the type
AppliedAnyType(bs, doc) ==
    IF doc.budgetId # NoBudget
    THEN IncSpent(bs, doc.budgetId, doc.amount)
    ELSE bs

\* "Aplicar valor ao novo orçamento": an expense with a budget is put on it
Applied(bs, doc) ==
    IF doc.type = "expense" /\ doc.budgetId # NoBudget
    THEN IncSpent(bs, doc.budgetId, doc.amount)
    ELSE bs

\* POST /api/transactions
CreateTransaction(u, data) ==
    LET doc == [data EXCEPT !.userId = u]
    IN  /\ nextId <= MaxTx
        /\ ~(doc.isRecurring /\ doc.recurringDay = NoDay)
        /\ txs' = Insert(txs, nextId, doc)
        /\ nextId' = nextId + 1
        /\ budgets' = IF doc.type = "expense" /\ doc.budgetId # NoBudget
                      THEN IncSpent(budgets, doc.budgetId, doc.amount)
                      ELSE budgets
        /\ last' = [op |-> "create", id |-> nextId, bud |-> doc.budgetId, seq |-> 0, ran |-> last.ran, old |-> NoOld]
        /\ pre' = Spent(budgets)
        /\ hist' = Booked(hist, nextId, budgets, budgets', FALSE)
        /\ report' = NoReport
        /\ UNCHANGED <<today, runners, mat>>
        /\ UNCHANGED shareVars

\* {...req.body} laid over the stored document
Merge(old, body) ==
    [f \in DOMAIN old |-> IF f \in DOMAIN body THEN body[f] ELSE old[f]]

\* PUT /api/transactions/:id
UpdateTransaction(u, id, body) ==
    /\ id \in DOMAIN txs
    /\ txs[id].userId = u
    /\ LET old     == txs[id]
           updated == Merge(old, body)
       IN  /\ txs' = [txs EXCEPT ![id] = updated]
           /\ budgets' = Applied(Reverted(budgets, old), updated)
           /\ last' = [op |-> "update", id |-> id, bud |-> old.budgetId, seq |-> 0,
                           ran |-> last.ran, old |-> OldOf(old)]
           /\ hist' = Booked(hist, id, budgets, budgets',
                             DOMAIN body = {"amount"} /\ body.amount # old.amount)
    /\ pre' = Spent(budgets)
    /\ report' = NoReport
    /\ UNCHANGED <<nextId, today, runners, mat>>
    /\ UNCHANGED shareVars

\* DELETE /api/transactions/:id
DeleteTransaction(u, id) ==
    /\ id \in DOMAIN txs
    /\ txs[id].userId = u
    /\ budgets' = IF txs[id].type = "expense" /\ txs[id].budgetId # NoBudget
                  THEN IncSpent(budgets, txs[id].budgetId, -txs[id].amount)
                  ELSE budgets
    /\ txs' = Remove(txs, id)
    /\ last' = [op |-> "delete", id |-> id, bud |-> txs[id].budgetId, seq |-> 0,
                ran |-> last.ran, old |-> OldOf(txs[id])]
    /\ hist' = Booked(hist, id, budgets, budgets', FALSE)
    /\ pre' = Spent(budgets)
    /\ report' = NoReport
    /\ UNCHANGED <<nextId, today, runners, mat>>
    /\ UNCHANGED shareVars

\* ------------------------------------------------------- budget routes
RECURSIVE SumAmounts(_, _)
SumAmounts(ts, ids) ==
    IF ids = {} THEN 0
    ELSE LET i == CHOOSE x \in ids : TRUE
         IN  ts[i].amount + SumAmounts(ts, ids \ {i})

\* the $match stage of the recalculate aggregate
RecalculateMatch(ts, bs, b) ==
    {id \in DOMAIN ts : /\ ts[id].budgetId = b
                        /\ ts[id].userId = bs[b].userId
                        /\ ts[id].type = "expense"
                        /\ ts[id].date.m = bs[b].month}

\* PATCH /api/budgets/:id/recalculate
Recalculate(u, b) ==
    /\ b \in DOMAIN budgets
    /\ budgets[b].userId = u
    /\ budgets' = [budgets EXCEPT ![b].spent = SumAmounts(txs, RecalculateMatch(txs, budgets, b))]
    /\ last' = [op |-> "recalculate", id |-> 0, bud |-> b, seq |-> 0, ran |-> last.ran, old |-> NoOld]
    /\ pre' = Spent(budgets)
    /\ report' = NoReport
    /\ UNCHANGED <<txs, nextId, today, runners, mat, hist>>
    /\ UNCHANGED shareVars

\* (mutant) the budget is deleted and its transactions are left as they are
UnsetNothing(ts, b) == ts

\* Transaction.updateMany({budgetId: b}, {$unset: {budgetId: ""}})
Unset(ts, b) ==
    [id \in DOMAIN ts |-> IF ts[id].budgetId = b
                          THEN [ts[id] EXCEPT !.budgetId = NoBudget]
                          ELSE ts[id]]

\* DELETE /api/budgets/:id
DeleteBudget(u, b) ==
    /\ b \in DOMAIN budgets
    /\ budgets[b].userId = u
    /\ txs' = Unset(txs, b)
    /\ budgets' = [x \in DOMAIN budgets \ {b} |-> budgets[x]]
    /\ last' = [op |-> "deleteBudget", id |-> 0, bud |-> b, seq |-> 0, ran |-> last.ran,
                old |-> NoOld]
    /\ pre' = Spent(budgets)
    /\ report' = NoReport
    /\ UNCHANGED <<nextId, today, runners, mat, hist>>
    /\ UNCHANGED shareVars

\* ------------------------------------------------------- goals and shares
MaxShares == 2        \* GoalShare documents ever inserted in one behaviour
MaxSaved  == 2        \* the most a goal's currentAmount grows to

People   == Users \cup {"u3"}
GoalIds  == {"g1"}
ShareIds == 1..MaxShares
Roles    == {"viewer", "contributor", "co-owner"}
RequestedRoles == Roles \cup {"admin"}
Statuses == {"pending", "accepted", "rejected"}
Titles   == {"t1", "t2"}
Clients  == {"k1", "k2"}

NoShare == 0          \* findOne(...) found nothing: null
NoGoal  == "none"
NoUser  == "none"
NoRole  == "none"

financeVars == <<txs, budgets, nextId, today, runners, mat, last, pre, hist, report>>

\* an e-mail address: whose it is, and whether it is typed in lower case
Emails == {<<"u1", "lower">>, <<"u2", "upper">>, <<"u3", "lower">>, <<"nobody", "lower">>}

\* email.toLowerCase()
ToLowerCase(email) == <<email[1], "lower">>

\* User.findOne({ email }): the users collection holds every address in lower
\* case
UserByEmail(email) ==
    IF email[1] \in People /\ email[2] = "lower" THEN email[1] ELSE NoUser

\* the permissions defaults of the GoalShare schema
NoPermissions ==
    [canAddAmount |-> FALSE, canEdit |-> FALSE, canDelete |-> FALSE,
     canInviteOthers |-> FALSE]

\* what GET /goals/:goalId/permissions answers for the owner
OwnerPermissions ==
    [canAddAmount |-> TRUE, canEdit |-> TRUE, canDelete |-> TRUE,
     canInviteOthers |-> TRUE]

\* a new GoalShare that is accepted from the start
NoDate == [m |-> 0, d |-> 0]      \* acceptedAt of a share nobody accepted

NewShareAccepted(g, owner, u, role) ==
    [goal |-> g, owner |-> owner, sharedWith |-> u, role |-> role,
     status |-> "accepted", permissions |-> NoPermissions, acceptedAt |-> NoDate]

\* new GoalShare({goal, owner, sharedWith, role, status: 'pending'})
NewShare(g, owner, u, role) ==
    [goal |-> g, owner |-> owner, sharedWith |-> u, role |-> role,
     status |-> "pending", permissions |-> NoPermissions, acceptedAt |-> NoDate]

\* goalShareSchema.pre('save') with a co-owner who may also delete
PreSaveCoOwnerDeletes(doc, roleModified) ==
    IF ~roleModified THEN doc
    ELSE CASE doc.role = "viewer" ->
                [doc EXCEPT !.permissions = NoPermissions]
           [] doc.role = "contributor" ->
                [doc EXCEPT !.permissions = [NoPermissions EXCEPT !.canAddAmount = TRUE]]
           [] doc.role = "co-owner" ->
                [doc EXCEPT !.permissions = OwnerPermissions]
           [] OTHER -> doc

\* goalShareSchema.pre('save'): the permissions follow the role whenever the
\* role was set since the document was loaded
PreSave(doc, roleModified) ==
    IF ~roleModified THEN doc
    ELSE CASE doc.role = "viewer" ->
                [doc EXCEPT !.permissions =
                    [canAddAmount |-> FALSE, canEdit |-> FALSE, canDelete |-> FALSE,
                     canInviteOthers |-> FALSE]]
           [] doc.role = "contributor" ->
                [doc EXCEPT !.permissions =
                    [canAddAmount |-> TRUE, canEdit |-> FALSE, canDelete |-> FALSE,
                     canInviteOthers |-> FALSE]]
           [] doc.role = "co-owner" ->
                [doc EXCEPT !.permissions =
                    [canAddAmount |-> TRUE, canEdit |-> TRUE, canDelete |-> FALSE,
                     canInviteOthers |-> TRUE]]
           [] OTHER -> doc

\* the unique index switched off
NoUniqueIndex(ss, doc) == FALSE

\* goalShareSchema.index({goal: 1, sharedWith: 1}, {unique: true}): inserting
\* doc would repeat a key
DuplicateKey(ss, doc) ==
    \E s \in DOMAIN ss : ss[s].goal = doc.goal /\ ss[s].sharedWith = doc.sharedWith

\* GoalShare.findOne(filter): one of the matching documents, or null
FindOne(matching) == IF matching = {} THEN {NoShare} ELSE matching

\* {goal, sharedWith} with no regard to the status
SharesOfAnyStatus(ss, g, u) ==
    {s \in DOMAIN ss : ss[s].goal = g /\ ss[s].sharedWith = u}

\* {goal, sharedWith, status: 'accepted'}
AcceptedShares(ss, g, u) ==
    {s \in DOMAIN ss : ss[s].goal = g /\ ss[s].sharedWith = u /\ ss[s].status = "accepted"}

\* {goal, sharedWith}
SharesWith(ss, g, u) ==
    {s \in DOMAIN ss : ss[s].goal = g /\ ss[s].sharedWith = u}

\* if (!isOwner) { ... if (!share || !share.permissions.canInviteOthers) 403 }
MayManage(gs, ss, g, u, mine) ==
    \/ gs[g].userId = u
    \/ mine # NoShare /\ ss[mine].permissions.canInviteOthers

\* the answer a request got, and what it asked
NoResp ==
    [op |-> "none", by |-> NoUser, goal |-> NoGoal, share |-> NoShare,
     role |-> NoRole, email |-> <<>>, code |-> 0, data |-> NoPermissions]

Answer(op, by, g, s, role, email, code, data) ==
    [op |-> op, by |-> by, goal |-> g, share |-> s, role |-> role,
     email |-> email, code |-> code, data |-> data]

\* a client with no request in flight
NoCall ==
    [pc |-> "idle", op |-> "none", by |-> NoUser, share |-> NoShare,
     doc |-> NewShare(NoGoal, NoUser, NoUser, NoRole), status |-> "pending",
     email |-> <<>>]

AllIdle == \A k \in Clients : calls[k].pc = "idle"

\* ------------------------------------------------------- sharing routes
\* the checks of POST /api/goals/:goalId/share, in the order the handler makes
\* them, and the save against the unique index
ShareCode(gs, ss, u, g, invitee, role, mine, existing, doc) ==
    IF role \notin Roles THEN 400
    ELSE IF g \notin DOMAIN gs THEN 404
    ELSE IF ~MayManage(gs, ss, g, u, mine) THEN 403
    ELSE IF invitee = NoUser THEN 404
    ELSE IF invitee = u THEN 400
    ELSE IF existing # NoShare THEN 400
    ELSE IF DuplicateKey(ss, doc) THEN 500
    ELSE 200

\* the document the handler builds once the goal is found
ShareDoc(gs, g, invitee, role) ==
    IF g \in DOMAIN gs
    THEN PreSave(NewShare(g, gs[g].userId, invitee, role), TRUE)
    ELSE NewShare(NoGoal, NoUser, invitee, role)

\* POST /api/goals/:goalId/share as one uninterrupted call
ShareGoal(u, g, email, role) ==
    LET invitee == UserByEmail(ToLowerCase(email))
        doc     == ShareDoc(goals, g, invitee, role)
    IN  \E mine \in FindOne(AcceptedShares(shares, g, u)),
           existing \in FindOne(SharesWith(shares, g, invitee)) :
          LET code == ShareCode(goals, shares, u, g, invitee, role, mine, existing, doc)
          IN  /\ AllIdle
              /\ code = 200 => nextShare <= MaxShares
              /\ shares' = IF code = 200 THEN Insert(shares, nextShare, doc) ELSE shares
              /\ nextShare' = IF code = 200 THEN nextShare + 1 ELSE nextShare
              /\ resp' = Answer("share", u, g, IF code = 200 THEN nextShare ELSE NoShare,
                                role, email, code, NoPermissions)
              /\ UNCHANGED <<goals, calls>>
              /\ UNCHANGED financeVars

\* POST /api/goal-shares/:shareId/accept and /reject: the filter of the findOne
PendingFor(ss, s, u) ==
    s \in DOMAIN ss /\ ss[s].sharedWith = u /\ ss[s].status = "pending"

\* the paths accept and reject set on the document: status, and acceptedAt
\* when the share is accepted
Responded(doc, status, day) ==
    IF status = "accepted"
    THEN [doc EXCEPT !.status = status, !.acceptedAt = day]
    ELSE [doc EXCEPT !.status = status]

Respond(op, u, s, status) ==
    /\ AllIdle
    /\ shares' = IF PendingFor(shares, s, u)
                 THEN [shares EXCEPT ![s] = PreSave(Responded(@, status, today), FALSE)]
                 ELSE shares
    /\ resp' = Answer(op, u, NoGoal, s, NoRole, <<>>,
                      IF PendingFor(shares, s, u) THEN 200 ELSE 404, NoPermissions)
    /\ UNCHANGED <<goals, nextShare, calls>>
    /\ UNCHANGED financeVars

\* POST /api/goal-shares/:shareId/accept
AcceptShare(u, s) == Respond("accept", u, s, "accepted")

\* POST /api/goal-shares/:shareId/reject
RejectShare(u, s) == Respond("reject", u, s, "rejected")

\* the checks of DELETE /api/goal-shares/:shareId; share.goal is populated,
\* so it is null once the goal is gone and goal.userId throws
RemoveCode(gs, ss, u, s, mine) ==
    IF s \notin DOMAIN ss THEN 404
    ELSE IF ss[s].goal \notin DOMAIN gs THEN 500
    ELSE IF gs[ss[s].goal].userId = u THEN 200
    ELSE IF ss[s].sharedWith = u THEN 200
    ELSE IF mine = NoShare \/ ~ss[mine].permissions.canInviteOthers THEN 403
    ELSE 200

\* the goal a stored share names (none when there is no such share)
GoalOf(ss, s) == IF s \in DOMAIN ss THEN ss[s].goal ELSE NoGoal

\* DELETE /api/goal-shares/:shareId
RemoveShare(u, s) ==
    \E mine \in FindOne(AcceptedShares(shares, GoalOf(shares, s), u)) :
      LET code == RemoveCode(goals, shares, u, s, mine)
      IN  /\ AllIdle
          /\ shares' = IF code = 200 THEN Remove(shares, s) ELSE shares
          /\ resp' = Answer("remove", u, GoalOf(shares, s), s, NoRole, <<>>, code,
                            NoPermissions)
          /\ UNCHANGED <<goals, nextShare, calls>>
          /\ UNCHANGED financeVars

\* the checks of PATCH /api/goal-shares/:shareId/role without the first one
RoleCodeNoSelfCheck(gs, ss, u, s, role, mine) ==
    IF role \notin Roles THEN 400
    ELSE IF s \notin DOMAIN ss THEN 404
    ELSE IF ss[s].goal \notin DOMAIN gs THEN 500
    ELSE IF ~MayManage(gs, ss, ss[s].goal, u, mine) THEN 403
    ELSE 200

\* the checks of PATCH /api/goal-shares/:shareId/role
RoleCode(gs, ss, u, s, role, mine) ==
    IF role \notin Roles THEN 400
    ELSE IF s \notin DOMAIN ss THEN 404
    ELSE IF ss[s].sharedWith = u THEN 403
    ELSE IF ss[s].goal \notin DOMAIN gs THEN 500
    ELSE IF ~MayManage(gs, ss, ss[s].goal, u, mine) THEN 403
    ELSE 200

\* PATCH /api/goal-shares/:shareId/role
UpdateRole(u, s, role) ==
    \E mine \in FindOne(AcceptedShares(shares, GoalOf(shares, s), u)) :
      LET code == RoleCode(goals, shares, u, s, role, mine)
      IN  /\ AllIdle
          /\ shares' = IF code = 200
                       THEN [shares EXCEPT ![s] =
                               PreSave([@ EXCEPT !.role = role], role # shares[s].role)]
                       ELSE shares
          /\ resp' = Answer("role", u, GoalOf(shares, s), s, role, <<>>, code,
                            NoPermissions)
          /\ UNCHANGED <<goals, nextShare, calls>>
          /\ UNCHANGED financeVars

\* GET /api/goals/:goalId/permissions
GetPermissions(u, g) ==
    \E mine \in FindOne(AcceptedShares(shares, g, u)) :
      /\ AllIdle
      /\ resp' = IF g \notin DOMAIN goals
                 THEN Answer("permissions", u, g, NoShare, NoRole, <<>>, 404, NoPermissions)
                 ELSE IF goals[g].userId = u
                 THEN Answer("permissions", u, g, NoShare, "owner", <<>>, 200,
                             OwnerPermissions)
                 ELSE IF mine = NoShare
                 THEN Answer("permissions", u, g, NoShare, NoRole, <<>>, 403, NoPermissions)
                 ELSE Answer("permissions", u, g, mine, shares[mine].role, <<>>, 200,
                             shares[mine].permissions)
      /\ UNCHANGED <<goals, shares, nextShare, calls>>
      /\ UNCHANGED financeVars

\* ----------------------------------------------------------- goal routes
\* Goal.findOne({_id, userId}) that also finds other users' goals
FindAnyGoal(gs, g, u) == g \in DOMAIN gs

\* Goal.findOne({_id: req.params.id, userId: req.user._id})
FindOwnGoal(gs, g, u) == g \in DOMAIN gs /\ gs[g].userId = u

GoalAnswer(op, u, g, found) ==
    Answer(op, u, g, NoShare, NoRole, <<>>, IF found THEN 200 ELSE 404, NoPermissions)

\* goalSchema.pre('save') of the schema that has a category: an active goal at
\* its target is completed
GoalPreSave(goal) ==
    IF goal.currentAmount >= goal.targetAmount /\ goal.status = "active"
    THEN [goal EXCEPT !.status = "completed"]
    ELSE goal

\* PUT /api/goals/:id: the body's keys are assigned and the goal is saved
UpdateGoal(u, g, body) ==
    /\ AllIdle
    /\ goals' = IF FindOwnGoal(goals, g, u)
                THEN [goals EXCEPT ![g] = GoalPreSave(Merge(@, body))]
                ELSE goals
    /\ resp' = GoalAnswer("edit", u, g, FindOwnGoal(goals, g, u))
    /\ UNCHANGED <<shares, nextShare, calls>>
    /\ UNCHANGED financeVars

\* goal.currentAmount += amount, and the goal completes at its target
Added(goal, amount) ==
    [goal EXCEPT !.currentAmount = @ + amount,
                 !.status = IF goal.currentAmount + amount >= goal.targetAmount
                               /\ goal.status = "active"
                            THEN "completed" ELSE @]

\* POST /api/goals/:id/add and PATCH /api/goals/:id/add-amount
AddAmount(u, g, amount) ==
    /\ AllIdle
    /\ FindOwnGoal(goals, g, u) => goals[g].currentAmount + amount <= MaxSaved
    /\ goals' = IF FindOwnGoal(goals, g, u)
                THEN [goals EXCEPT ![g] = GoalPreSave(Added(@, amount))]
                ELSE goals
    /\ resp' = GoalAnswer("add", u, g, FindOwnGoal(goals, g, u))
    /\ UNCHANGED <<shares, nextShare, calls>>
    /\ UNCHANGED financeVars

\* PUT /api/goals/:id of the first goals router: Goal.findByIdAndUpdate with
\* the body, no document is saved and no hook runs
UpdateGoalEarlier(u, g, body) ==
    /\ AllIdle
    /\ goals' = IF FindOwnGoal(goals, g, u)
                THEN [goals EXCEPT ![g] = Merge(@, body)]
                ELSE goals
    /\ resp' = GoalAnswer("edit", u, g, FindOwnGoal(goals, g, u))
    /\ UNCHANGED <<shares, nextShare, calls>>
    /\ UNCHANGED financeVars

\* goal.currentAmount += amount of the first goals router: the goal completes
\* at its target unless it is completed already
AddedEarlier(goal, amount) ==
    [goal EXCEPT !.currentAmount = @ + amount,
                 !.status = IF goal.currentAmount + amount >= goal.targetAmount
                               /\ goal.status # "completed"
                            THEN "completed" ELSE @]

\* PATCH /api/goals/:id/add-amount of the first goals router, whose Goal
\* schema has no status hook
AddAmountEarlier(u, g, amount) ==
    /\ AllIdle
    /\ FindOwnGoal(goals, g, u) => goals[g].currentAmount + amount <= MaxSaved
    /\ goals' = IF FindOwnGoal(goals, g, u)
                THEN [goals EXCEPT ![g] = AddedEarlier(@, amount)]
                ELSE goals
    /\ resp' = GoalAnswer("add", u, g, FindOwnGoal(goals, g, u))
    /\ UNCHANGED <<shares, nextShare, calls>>
    /\ UNCHANGED financeVars

\* DELETE /api/goals/:id: the goal goes, its shares stay
DeleteGoal(u, g) ==
    /\ AllIdle
    /\ goals' = IF FindOwnGoal(goals, g, u) THEN Remove(goals, g) ELSE goals
    /\ resp' = GoalAnswer("delete", u, g, FindOwnGoal(goals, g, u))
    /\ UNCHANGED <<shares, nextShare, calls>>
    /\ UNCHANGED financeVars

\* the collections before any sharing: u1's goal, no share
InitGoals ==
    [g \in GoalIds |->
        [userId |-> "u1", title |-> "t1", currentAmount |-> 0, targetAmount |-> 2,
         status |-> "active"]]

InitSharing ==
    /\ goals = InitGoals
    /\ shares = <<>>
    /\ nextShare = 1
    /\ calls = [k \in Clients |-> NoCall]
    /\ resp = NoResp

\* ---------------------------------------------------------------- clock
LastDay == [m |-> 1, d |-> 2]

Tomorrow(day) == IF day.d = 1 THEN [day EXCEPT !.d = 2] ELSE [m |-> day.m + 1, d |-> 1]

\* midnight passes
NextDay ==
    /\ today # LastDay
    /\ \A r \in Runners : runners[r].pc = "idle"
    /\ today' = Tomorrow(today)
    /\ last' = [op |-> "nextday", id |-> 0, bud |-> NoBudget, seq |-> 0, ran |-> FALSE, old |-> NoOld]
    /\ pre' = Spent(budgets)
    /\ report' = NoReport
    /\ UNCHANGED <<txs, budgets, nextId, runners, mat, hist>>
    /\ UNCHANGED shareVars

\* ------------------------------------------------------- initial state
FirstDay == [m |-> 1, d |-> 1]

InitBudgets ==
    [b \in BudgetIds |->
        IF b = "b1" THEN [userId |-> "u1", category |-> "c1", month |-> 1, spent |-> 0]
                    ELSE [userId |-> "u2", category |-> "c1", month |-> 1, spent |-> 0]]

\* the collections after the documents of posts (a sequence of transaction
\* documents) went through POST /api/transactions one after the other
RECURSIVE PostedBudgets(_, _)
PostedBudgets(bs, posts) ==
    IF posts = <<>> THEN bs
    ELSE PostedBudgets(IF Head(posts).type = "expense" /\ Head(posts).budgetId # NoBudget
                       THEN IncSpent(bs, Head(posts).budgetId, Head(posts).amount)
                       ELSE bs,
                       Tail(posts))

PostedHist(posts) ==
    [id \in TxIds |->
        [net |-> [b \in BudgetIds |->
                    IF /\ id <= Len(posts)
                       /\ posts[id].type = "expense"
                       /\ posts[id].budgetId = b
                    THEN posts[id].amount ELSE 0],
         amended |-> FALSE]]

InitFinanceOn(posts, day) ==
    /\ txs = posts
    /\ budgets = PostedBudgets(InitBudgets, posts)
    /\ nextId = Len(posts) + 1
    /\ today = day
    /\ runners = [r \in Runners |-> Idle]
    /\ mat = {}
    /\ last = [op |-> "init", id |-> 0, bud |-> NoBudget, seq |-> 0, ran |-> FALSE, old |-> NoOld]
    /\ pre = Spent(PostedBudgets(InitBudgets, posts))
    /\ hist = PostedHist(posts)
    /\ report = NoReport

InitFinance(posts) == InitFinanceOn(posts, FirstDay)

InitWith(posts) ==
    /\ InitFinance(posts)
    /\ InitSharing

SeqsUpTo(S, n) == UNION {[1..k -> S] : k \in 0..n}

\* ------------------------------------- the engine with the routes, in turn
MaxTemplates == 2     \* recurring templates on file when the behaviour starts

\* the templates users have posted
PostedTemplates ==
    {Tx("u1", desc, 1, k[1], "c1", FirstDay, TRUE, day, k[2]) :
        desc \in TemplateDescs, day \in Days,
        k \in {<<"expense", "b1">>, <<"income", NoBudget>>}}

\* a hand-made transaction that looks like a materialized one
PostedByHand ==
    {Tx("u1", <<"a", Suffix>>, 1, "expense", "c1", today, FALSE, NoDay, "b1")}

Edits ==
    {[description |-> <<"a">>], [amount |-> 2, category |-> "c2"]}

Init == \E posts \in SeqsUpTo(PostedTemplates, MaxTemplates) : InitWith(posts)

Next ==
    \/ \E data \in PostedByHand : CreateTransaction("u1", data)
    \/ \E id \in TxIds, body \in Edits : UpdateTransaction("u1", id, body)
    \/ \E id \in TxIds : DeleteTransaction("u1", id)
    \/ RunEngine(NoFailure)
    \/ NextDay

Spec == Init /\ [][Next]_vars

\* ------------------------------------------- the ledger under the routes
OtherMonth == [m |-> 2, d |-> 1]

\* request bodies of POST /api/transactions: an expense on budget b1 dated
\* inside or outside the month of b1, an income, a recurring template
LedgerPosts ==
    {Tx("u1", <<"a">>, amt, "expense", "c1", FirstDay, FALSE, NoDay, "b1") : amt \in Amounts}
    \cup {Tx("u1", <<"a">>, 1, "expense", "c1", OtherMonth, FALSE, NoDay, "b1"),
          Tx("u1", <<"a">>, 1, "income", "c1", FirstDay, FALSE, NoDay, "b1"),
          Tx("u1", <<"a">>, 1, "expense", "c1", FirstDay, TRUE, 1, "b1")}

\* request bodies of PUT /api/transactions/:id
LedgerEdits ==
    {[amount |-> amt] : amt \in Amounts}
    \cup {[budgetId |-> "b2"]}

MaxLedgerTx == 2      \* transactions posted in one behaviour of the ledger

InitLedger == InitWith(<<>>)

NextLedger ==
    \/ \E u \in Users, data \in LedgerPosts :
          nextId <= MaxLedgerTx /\ CreateTransaction(u, data)
    \/ \E u \in Users, id \in TxIds, body \in LedgerEdits : UpdateTransaction(u, id, body)
    \/ \E u \in Users, id \in TxIds : DeleteTransaction(u, id)
    \/ \E u \in Users, b \in BudgetIds : Recalculate(u, b)

SpecLedger == InitLedger /\ [][NextLedger]_vars

\* -------------------------------------------- the routes, budgets deleted
\* request bodies of POST /api/transactions: an expense and an income on
\* budget b1, a monthly template, and a one-off transaction that carries a day
BookPosts ==
    {Tx("u1", <<"a">>, 1, "expense", "c1", FirstDay, FALSE, NoDay, "b1"),
     Tx("u1", <<"a">>, 1, "income", "c1", FirstDay, FALSE, NoDay, "b1"),
     Tx("u1", <<"a">>, 1, "expense", "c1", FirstDay, TRUE, 1, "b1"),
     Tx("u1", <<"a">>, 1, "expense", "c1", FirstDay, FALSE, 1, NoBudget)}

\* request bodies of PUT /api/transactions/:id
BookEdits ==
    {[budgetId |-> "b2", amount |-> 2], [type |-> "income"], [type |-> "expense"]}

MaxBookTx == 2        \* transactions posted by hand in one behaviour

InitBook == InitWith(<<>>)

NextBook ==
    \/ \E data \in BookPosts : nextId <= MaxBookTx /\ CreateTransaction("u1", data)
    \/ \E id \in TxIds, body \in BookEdits : UpdateTransaction("u1", id, body)
    \/ \E id \in TxIds : DeleteTransaction("u1", id)
    \/ \E u \in Users, b \in BudgetIds : DeleteBudget(u, b)

SpecBook == InitBook /\ [][NextBook]_vars

\* ------------------------------- the engine over templates, budgets deleted
\* request bodies of POST /api/transactions: monthly templates on budget b1
\* and one-off transactions
TemplatePosts ==
    {Tx("u1", <<"a">>, amt, "expense", "c1", FirstDay, rec, IF rec THEN 1 ELSE NoDay, "b1") :
        amt \in Amounts, rec \in BOOLEAN}

NextTemplates ==
    \/ \E data \in TemplatePosts : nextId <= MaxBookTx /\ CreateTransaction("u1", data)
    \/ \E id \in TxIds : DeleteTransaction("u1", id)
    \/ \E u \in Users, b \in BudgetIds : DeleteBudget(u, b)
    \/ \E id \in TxIds : PauseRecurring("u1", id)
    \/ \E id \in TxIds : ResumeRecurring("u1", id)
    \/ RunEngine(NoFailure)
    \/ NextDay

SpecTemplates == InitBook /\ [][NextTemplates]_vars

\* ------------------------------------------- goals shared, one call at a time
GoalEdits == {[title |-> t] : t \in Titles}

\* PUT /api/goals/:id with a status: the user pauses or resumes the goal
StatusEdits == {[status |-> "paused"], [status |-> "active"]}

\* PUT /api/goals/:id with a targetAmount
TargetEdits == {[targetAmount |-> 1], [targetAmount |-> 2]}

InitShare == InitWith(<<>>)

NextShare ==
    \/ \E u \in People, g \in GoalIds, email \in Emails, role \in RequestedRoles :
          ShareGoal(u, g, email, role)
    \/ \E u \in People, s \in ShareIds : AcceptShare(u, s)
    \/ \E u \in People, s \in ShareIds : RejectShare(u, s)
    \/ \E u \in People, s \in ShareIds : RemoveShare(u, s)
    \/ \E u \in People, s \in ShareIds, role \in RequestedRoles : UpdateRole(u, s, role)
    \/ \E u \in People, g \in GoalIds : GetPermissions(u, g)
    \/ \E u \in People, g \in GoalIds : DeleteGoal(u, g)

SpecShare == InitShare /\ [][NextShare]_vars

\* ----------------------------------------- a shared goal under its routes
NextGoal ==
    \/ \E email \in Emails, role \in Roles : ShareGoal("u1", "g1", email, role)
    \/ \E u \in People, s \in ShareIds : AcceptShare(u, s)
    \/ \E u \in People, g \in GoalIds, body \in GoalEdits \cup StatusEdits \cup TargetEdits :
          UpdateGoal(u, g, body)
    \/ \E u \in People, g \in GoalIds, body \in StatusEdits \cup TargetEdits :
          UpdateGoalEarlier(u, g, body)
    \/ \E u \in People, g \in GoalIds : AddAmount(u, g, 1)
    \/ \E u \in People, g \in GoalIds : AddAmountEarlier(u, g, 1)
    \/ \E u \in People, g \in GoalIds : DeleteGoal(u, g)

SpecGoal == InitShare /\ [][NextGoal]_vars

\* ------------------------------------------------------ reading a goal
\* instants are counted in half days: 1000 * 60 * 60 * 24 ms are two of them
DayLength == 2

\* the endDate a goal was created with, and the instants it is read at
EndDates == {2, 4, 5, 64, 65}

ReadInstants == {3, 4}

\* Math.ceil(a / b), b > 0
CeilDiv(a, b) == 0 - ((0 - a) \div b)

Largest(a, b) == IF a >= b THEN a ELSE b

RECURSIVE Gcd(_, _)
Gcd(a, b) == IF b = 0 THEN a ELSE Gcd(b, a % b)

\* the number a / b, as the fraction in lowest terms
Ratio(a, b) == <<a \div Gcd(a, b), b \div Gcd(a, b)>>

\* goalSchema.virtual('daysRemaining')
DaysRemaining(goal, now) == Largest(0, CeilDiv(goal.endDate - now, DayLength))

\* goalSchema.virtual('monthsRemaining')
MonthsRemaining(goal, now) == Largest(1, CeilDiv(DaysRemaining(goal, now), 30))

\* goalSchema.virtual('remainingAmount')
RemainingAmount(goal) == Largest(0, goal.targetAmount - goal.currentAmount)

\* goalSchema.virtual('monthlyTargetRemaining')
MonthlyTargetRemaining(goal, now) ==
    IF goal.status = "completed" \/ DaysRemaining(goal, now) <= 0
    THEN Ratio(0, 1)
    ELSE Ratio(RemainingAmount(goal), MonthsRemaining(goal, now))

\* goal.toObject(): the stored paths and the virtuals
ToObject(goal, now) ==
    [status |-> goal.status, currentAmount |-> goal.currentAmount,
     targetAmount |-> goal.targetAmount, endDate |-> goal.endDate, at |-> now,
     daysRemaining |-> DaysRemaining(goal, now),
     monthsRemaining |-> MonthsRemaining(goal, now),
     remainingAmount |-> RemainingAmount(goal),
     monthlyTargetRemaining |-> MonthlyTargetRemaining(goal, now)]

\* the object GET /api/goals/:id, GET /api/goals and GET /api/goals/active of
\* the second router answer with: the keys the route computes itself are laid
\* over goal.toObject()
WithProgress(goal, now) ==
    LET daysRemaining   == Largest(0, CeilDiv(goal.endDate - now, DayLength))
        monthsRemaining == Largest(1, CeilDiv(daysRemaining, 30))
        remainingAmount == Largest(0, goal.targetAmount - goal.currentAmount)
    IN  [ToObject(goal, now) EXCEPT
            !.daysRemaining = daysRemaining,
            !.monthsRemaining = monthsRemaining,
            !.remainingAmount = remainingAmount,
            !.monthlyTargetRemaining = Ratio(remainingAmount, monthsRemaining)]

\* the object GET /api/goals of the first router answers with: it lays
\* progress and the day counts over goal.toObject(), nothing else
WithDays(goal, now) ==
    [ToObject(goal, now) EXCEPT
        !.daysRemaining = Largest(0, CeilDiv(goal.endDate - now, DayLength))]

\* GET /api/goals/:id at the instant now
GetGoal(u, g, now) ==
    /\ AllIdle
    /\ resp' = Answer("get", u, g, NoShare, NoRole, <<>>,
                      IF FindOwnGoal(goals, g, u) THEN 200 ELSE 404,
                      [x \in {y \in {g} : FindOwnGoal(goals, y, u)} |->
                          WithProgress(goals[x], now)])
    /\ UNCHANGED <<goals, shares, nextShare, calls>>
    /\ UNCHANGED financeVars

\* GET /api/goals of the first router at the instant now
ListGoals(u, now) ==
    /\ AllIdle
    /\ resp' = Answer("list", u, NoGoal, NoShare, NoRole, <<>>, 200,
                      [x \in {y \in DOMAIN goals : goals[y].userId = u} |->
                          WithDays(goals[x], now)])
    /\ UNCHANGED <<goals, shares, nextShare, calls>>
    /\ UNCHANGED financeVars

InitRead ==
    /\ InitFinance(<<>>)
    /\ \E end \in EndDates :
          goals = [g \in GoalIds |->
                     [userId |-> "u1", title |-> "t1", currentAmount |-> 0,
                      targetAmount |-> 2, status |-> "active", endDate |-> end]]
    /\ shares = <<>>
    /\ nextShare = 1
    /\ calls = [k \in Clients |-> NoCall]
    /\ resp = NoResp

NextRead ==
    \/ \E u \in Users, g \in GoalIds, now \in ReadInstants : GetGoal(u, g, now)
    \/ \E u \in Users, now \in ReadInstants : ListGoals(u, now)
    \/ \E g \in GoalIds : AddAmount("u1", g, 1)
    \/ \E g \in GoalIds, body \in StatusEdits \cup TargetEdits : UpdateGoal("u1", g, body)

SpecRead == InitRead /\ [][NextRead]_vars

\* ------------------------------- sharing requests, one storage call at a time
\* POST /api/goals/:goalId/share up to its last read: the request is answered
\* at once when a check fails, and goes on to share.save() otherwise
ShareCheck(k, u, g, email, role) ==
    LET invitee == UserByEmail(ToLowerCase(email))
        doc     == ShareDoc(goals, g, invitee, role)
    IN  \E mine \in FindOne(AcceptedShares(shares, g, u)),
           existing \in FindOne(SharesWith(shares, g, invitee)) :
          LET code == ShareCode(goals, shares, u, g, invitee, role, mine, existing, doc)
          IN  /\ calls[k].pc = "idle"
              /\ calls' = IF code = 200
                          THEN [calls EXCEPT ![k] =
                                  [pc |-> "save", op |-> "share", by |-> u,
                                   share |-> NoShare, doc |-> doc, status |-> "pending",
                                   email |-> email]]
                          ELSE calls
              /\ resp' = IF code = 200 THEN resp
                         ELSE Answer("share", u, g, NoShare, role, email, code, NoPermissions)
              /\ UNCHANGED <<goals, shares, nextShare>>
              /\ UNCHANGED financeVars

\* await share.save() of the new document: the insert throws on a repeated key
ShareSave(k) ==
    /\ calls[k].pc = "save"
    /\ calls[k].op = "share"
    /\ LET c    == calls[k]
           dup  == DuplicateKey(shares, c.doc)
       IN  /\ ~dup => nextShare <= MaxShares
           /\ shares' = IF dup THEN shares ELSE Insert(shares, nextShare, c.doc)
           /\ nextShare' = IF dup THEN nextShare ELSE nextShare + 1
           /\ resp' = Answer("share", c.by, c.doc.goal, IF dup THEN NoShare ELSE nextShare,
                             c.doc.role, c.email, IF dup THEN 500 ELSE 200, NoPermissions)
    /\ calls' = [calls EXCEPT ![k] = NoCall]
    /\ UNCHANGED goals
    /\ UNCHANGED financeVars

\* await GoalShare.findOne({_id, sharedWith, status: 'pending'}) of accept and
\* reject
RespondFind(k, op, u, s, status) ==
    /\ calls[k].pc = "idle"
    /\ calls' = IF PendingFor(shares, s, u)
                THEN [calls EXCEPT ![k] =
                        [pc |-> "save", op |-> op, by |-> u, share |-> s,
                         doc |-> shares[s], status |-> status, email |-> <<>>]]
                ELSE calls
    /\ resp' = IF PendingFor(shares, s, u) THEN resp
               ELSE Answer(op, u, NoGoal, s, NoRole, <<>>, 404, NoPermissions)
    /\ UNCHANGED <<goals, shares, nextShare>>
    /\ UNCHANGED financeVars

\* await share.save() of the loaded document: it sets the paths that were
\* modified, status and for accept acceptedAt, on the stored document with
\* that _id
RespondSave(k) ==
    /\ calls[k].pc = "save"
    /\ calls[k].op \in {"accept", "reject"}
    /\ LET c == calls[k]
       IN  /\ shares' = IF c.share \in DOMAIN shares
                        THEN [shares EXCEPT ![c.share] =
                                PreSave(Responded(@, c.status, today), FALSE)]
                        ELSE shares
           /\ resp' = Answer(c.op, c.by, NoGoal, c.share, NoRole, <<>>,
                             IF c.share \in DOMAIN shares THEN 200 ELSE 500, NoPermissions)
    /\ calls' = [calls EXCEPT ![k] = NoCall]
    /\ UNCHANGED <<goals, nextShare>>
    /\ UNCHANGED financeVars

InvitedEmails == {<<"u2", "upper">>, <<"u3", "lower">>}
InvitedRoles  == {"viewer", "co-owner"}

NextShareConc ==
    \/ \E k \in Clients, email \in InvitedEmails, role \in InvitedRoles :
          ShareCheck(k, "u1", "g1", email, role)
    \/ \E k \in Clients : ShareSave(k)
    \/ \E k \in Clients, u \in Users, s \in ShareIds :
          RespondFind(k, "accept", u, s, "accepted")
    \/ \E k \in Clients, u \in Users, s \in ShareIds :
          RespondFind(k, "reject", u, s, "rejected")
    \/ \E k \in Clients : RespondSave(k)

SpecShareConc == InitShare /\ [][NextShareConc]_vars

\* ------------------------------------ two engine runs, one await at a time
\* the run moves on to the next template of its list, or returns
NextTemplate(r) ==
    IF Len(runners[r].queue) > 1
    THEN [runners EXCEPT ![r].pc = "check", ![r].queue = Tail(@), ![r].newId = 0]
    ELSE [runners EXCEPT ![r] = Idle]

\* await Transaction.find(...).populate(...): the run takes its list of due
\* templates (with none it returns at once)
StartRun(r) ==
    /\ runners[r].pc = "idle"
    /\ DueTemplates(txs, today) # {}
    /\ runners' = [runners EXCEPT ![r] =
                     [pc |-> "check", queue |-> SetToSeq(DueTemplates(txs, today)),
                      snapshot |-> txs, newId |-> 0]]
    /\ UNCHANGED <<txs, budgets, nextId, today, mat, last, pre, hist, report>>
    /\ UNCHANGED shareVars

\* await this.wasProcessedToday(originalTransaction)
CheckStep(r) ==
    /\ runners[r].pc = "check"
    /\ LET t == Head(runners[r].queue)
       IN  runners' = IF WasProcessedToday(txs, runners[r].snapshot[t], today)
                      THEN NextTemplate(r)
                      ELSE [runners EXCEPT ![r].pc = "save"]
    /\ UNCHANGED <<txs, budgets, nextId, today, mat, last, pre, hist, report>>
    /\ UNCHANGED shareVars

\* await newTransaction.save()
SaveStep(r) ==
    /\ runners[r].pc = "save"
    /\ nextId <= MaxTx
    /\ LET t   == Head(runners[r].queue)
           new == NewTransaction(runners[r].snapshot[t], budgets, today)
       IN  /\ txs' = Insert(txs, nextId, new)
           /\ mat' = mat \cup {<<t, today, nextId, runners[r].snapshot[t].description>>}
           /\ runners' = IF new.type = "expense" /\ new.budgetId # NoBudget
                         THEN [runners EXCEPT ![r].pc = "inc", ![r].newId = nextId]
                         ELSE NextTemplate(r)
    /\ nextId' = nextId + 1
    /\ UNCHANGED <<budgets, today, last, pre, hist, report>>
    /\ UNCHANGED shareVars

\* await Budget.findByIdAndUpdate(newTransaction.budgetId, {$inc: ...}), with
\* the values of the document the run saved
IncStep(r) ==
    /\ runners[r].pc = "inc"
    /\ LET t   == Head(runners[r].queue)
           new == NewTransaction(runners[r].snapshot[t], budgets, today)
       IN  /\ budgets' = IncSpent(budgets, new.budgetId, new.amount)
           /\ hist' = Owed(hist, runners[r].newId, budgets, new.budgetId, new.amount)
    /\ runners' = NextTemplate(r)
    /\ UNCHANGED <<txs, nextId, today, mat, last, pre, report>>
    /\ UNCHANGED shareVars

NextConc ==
    \/ \E r \in Runners : StartRun(r)
    \/ \E r \in Runners : CheckStep(r)
    \/ \E r \in Runners : SaveStep(r)
    \/ \E r \in Runners : IncStep(r)

SpecConc == Init /\ [][NextConc]_vars

\* ------------------------------- the engine while storage calls may throw
\* the storage calls that throw in one run, one fail point per due template
FailureChoices ==
    {[id \in TxIds |-> IF id \in DOMAIN g THEN g[id] ELSE "none"] :
        g \in [DueTemplates(txs, today) -> FailPoints]}

\* the templates on file: plain and pattern descriptions, with and without
\* a budget to update
FailTemplates ==
    {Tx("u1", desc, 1, k[1], "c1", FirstDay, TRUE, 1, k[2]) :
        desc \in {<<"a">>, <<".">>},
        k \in {<<"expense", "b1">>, <<"income", NoBudget>>}}

InitFail == \E posts \in SeqsUpTo(FailTemplates, MaxTemplates) : InitWith(posts)

NextFail ==
    \/ \E fails \in FailureChoices : RunEngine(fails)
    \/ \E id \in TxIds : DeleteTransaction("u1", id)
    \/ NextDay

SpecFail == InitFail /\ [][NextFail]_vars

\* ------------------------------- budgets created and edited, calls interleaved
MaxBudgets == 4       \* Budget documents ever inserted

\* the fields of the unique index of the budgets collection; month stands for
\* the period (month, year)
BudgetKey(doc) == <<doc.userId, doc.category, doc.month>>

\* (mutant) a budgets collection without the unique index
NoBudgetIndex(bs, id, doc) == FALSE

\* createIndex({userId: 1, category: 1, month: 1, year: 1}, {unique: true}):
\* writing doc under id throws when another document has its key
BudgetDuplicateKey(bs, id, doc) ==
    \E b \in DOMAIN bs \ {id} : BudgetKey(bs[b]) = BudgetKey(doc)

\* Budget.findOne({_id: {$ne: id}, userId, category, month, year})
ExistingBudget(bs, id, u, cat, m) ==
    \E b \in DOMAIN bs \ {id} : BudgetKey(bs[b]) = <<u, cat, m>>

\* the _id of the next Budget document
NewBudgetId(bs) == "b" \o ToString(Cardinality(DOMAIN bs) + 1)

BudgetAnswer(op, u, code) ==
    Answer(op, u, NoGoal, NoShare, NoRole, <<>>, code, NoPermissions)

\* a budget request between its storage calls
BudgetCall(pc, op, u, b, body) ==
    [pc |-> pc, op |-> op, by |-> u, budget |-> b, body |-> body]

\* POST /api/budgets up to the findOne of the period's budget
BudgetCreateFind(k, u, cat, m) ==
    LET found == ExistingBudget(budgets, NoBudget, u, cat, m)
    IN  /\ calls[k].pc = "idle"
        /\ calls' = IF found THEN calls
                    ELSE [calls EXCEPT ![k] =
                            BudgetCall("save", "createBudget", u, NoBudget,
                                       [userId |-> u, category |-> cat, month |-> m,
                                        spent |-> 0])]
        /\ resp' = IF found THEN BudgetAnswer("createBudget", u, 400) ELSE resp
        /\ UNCHANGED <<goals, shares, nextShare>>
        /\ UNCHANGED financeVars

\* await budget.save() of POST /api/budgets
BudgetCreateSave(k) ==
    /\ calls[k].pc = "save"
    /\ calls[k].op = "createBudget"
    /\ LET c   == calls[k]
           dup == BudgetDuplicateKey(budgets, NoBudget, c.body)
       IN  /\ ~dup => Cardinality(DOMAIN budgets) < MaxBudgets
           /\ budgets' = IF dup THEN budgets
                         ELSE Insert(budgets, NewBudgetId(budgets), c.body)
           /\ resp' = BudgetAnswer("createBudget", c.by, IF dup THEN 500 ELSE 201)
    /\ calls' = [calls EXCEPT ![k] = NoCall]
    /\ UNCHANGED <<goals, shares, nextShare>>
    /\ UNCHANGED <<txs, nextId, today, runners, mat, last, pre, hist, report>>

\* PUT /api/budgets/:id up to the findOne of a duplicate
BudgetUpdateFind(k, u, b, body) ==
    LET own    == b \in DOMAIN budgets /\ budgets[b].userId = u
        merged == Merge(budgets[b], body)
        found  == /\ DOMAIN body \cap {"category", "month"} # {}
                  /\ ExistingBudget(budgets, b, u, merged.category, merged.month)
        code   == IF ~own THEN 404 ELSE IF found THEN 400 ELSE 200
    IN  /\ calls[k].pc = "idle"
        /\ calls' = IF code = 200
                    THEN [calls EXCEPT ![k] = BudgetCall("write", "updateBudget", u, b, body)]
                    ELSE calls
        /\ resp' = IF code = 200 THEN resp ELSE BudgetAnswer("updateBudget", u, code)
        /\ UNCHANGED <<goals, shares, nextShare>>
        /\ UNCHANGED financeVars

\* await Budget.findByIdAndUpdate(id, {...req.body}) of PUT /api/budgets/:id
BudgetUpdateWrite(k) ==
    /\ calls[k].pc = "write"
    /\ calls[k].op = "updateBudget"
    /\ LET c      == calls[k]
           merged == Merge(budgets[c.budget], c.body)
           dup    == BudgetDuplicateKey(budgets, c.budget, merged)
       IN  /\ budgets' = IF dup THEN budgets ELSE [budgets EXCEPT ![c.budget] = merged]
           /\ resp' = BudgetAnswer("updateBudget", c.by, IF dup THEN 500 ELSE 200)
    /\ calls' = [calls EXCEPT ![k] = NoCall]
    /\ UNCHANGED <<goals, shares, nextShare>>
    /\ UNCHANGED <<txs, nextId, today, runners, mat, last, pre, hist, report>>

\* request bodies of PUT /api/budgets/:id
BudgetEdits ==
    {[category |-> c] : c \in Categories} \cup {[month |-> m] : m \in Months}

NextBudget ==
    \/ \E k \in Clients, cat \in Categories, m \in Months :
          BudgetCreateFind(k, "u1", cat, m)
    \/ \E k \in Clients : BudgetCreateSave(k)
    \/ \E k \in Clients, u \in Users, b \in DOMAIN budgets, body \in BudgetEdits :
          BudgetUpdateFind(k, u, b, body)
    \/ \E k \in Clients : BudgetUpdateWrite(k)

SpecBudget == InitBook /\ [][NextBudget]_vars

\* ------------------------------- the routes when a storage call throws
TransactionAnswer(op, u, code) ==
    Answer(op, u, NoGoal, NoShare, NoRole, <<>>, code, NoPermissions)

Adjusts(doc) == doc.type = "expense" /\ doc.budgetId # NoBudget

MaxDrift == 2         \* how far below zero failed requests may take a spent

WithinDrift(bs) == \A b \in DOMAIN bs : bs[b].spent >= -MaxDrift

\* POST /api/transactions when the storage call f throws ("none": no call
\* does): the catch answers 500 with what was written before left in place
CreateTransactionWith(u, data, f) ==
    LET doc   == [data EXCEPT !.userId = u]
        saved == f # "save"
    IN  /\ nextId <= MaxTx
        /\ ~(doc.isRecurring /\ doc.recurringDay = NoDay)
        /\ f = "budget" => Adjusts(doc)
        /\ txs' = IF saved THEN Insert(txs, nextId, doc) ELSE txs
        /\ nextId' = IF saved THEN nextId + 1 ELSE nextId
        /\ budgets' = IF f = "none" THEN Applied(budgets, doc) ELSE budgets
        /\ resp' = TransactionAnswer("create", u, IF f = "none" THEN 201 ELSE 500)
        /\ last' = [op |-> "create", id |-> IF saved THEN nextId ELSE 0,
                    bud |-> doc.budgetId, seq |-> 0, ran |-> last.ran, old |-> NoOld]
        /\ pre' = Spent(budgets)
        /\ hist' = IF saved THEN Booked(hist, nextId, budgets, budgets', FALSE) ELSE hist
        /\ report' = NoReport
        /\ UNCHANGED <<today, runners, mat>>
        /\ UNCHANGED <<goals, shares, nextShare, calls>>

\* PUT /api/transactions/:id when the storage call f throws
UpdateTransactionWith(u, id, body, f) ==
    /\ id \in DOMAIN txs
    /\ txs[id].userId = u
    /\ LET old      == txs[id]
           updated  == Merge(old, body)
           reverted == IF f \in {"find", "revert"} THEN budgets ELSE Reverted(budgets, old)
       IN  /\ f = "revert" => Adjusts(old)
           /\ f = "apply" => Adjusts(updated)
           /\ txs' = IF f \in {"none", "apply"} THEN [txs EXCEPT ![id] = updated] ELSE txs
           /\ budgets' = IF f = "none" THEN Applied(reverted, updated) ELSE reverted
           /\ WithinDrift(budgets')
           /\ last' = [op |-> "update", id |-> id, bud |-> old.budgetId, seq |-> 0,
                       ran |-> last.ran, old |-> OldOf(old)]
           /\ hist' = Booked(hist, id, budgets, budgets', FALSE)
    /\ resp' = TransactionAnswer("update", u, IF f = "none" THEN 200 ELSE 500)
    /\ pre' = Spent(budgets)
    /\ report' = NoReport
    /\ UNCHANGED <<nextId, today, runners, mat>>
    /\ UNCHANGED <<goals, shares, nextShare, calls>>

\* DELETE /api/transactions/:id when the storage call f throws
DeleteTransactionWith(u, id, f) ==
    /\ id \in DOMAIN txs
    /\ txs[id].userId = u
    /\ f = "revert" => Adjusts(txs[id])
    /\ budgets' = IF f \in {"find", "revert"} THEN budgets ELSE Reverted(budgets, txs[id])
    /\ WithinDrift(budgets')
    /\ txs' = IF f = "none" THEN Remove(txs, id) ELSE txs
    /\ resp' = TransactionAnswer("delete", u, IF f = "none" THEN 200 ELSE 500)
    /\ last' = [op |-> "delete", id |-> id, bud |-> txs[id].budgetId, seq |-> 0,
                ran |-> last.ran, old |-> OldOf(txs[id])]
    /\ hist' = Booked(hist, id, budgets, budgets', FALSE)
    /\ pre' = Spent(budgets)
    /\ report' = NoReport
    /\ UNCHANGED <<nextId, today, runners, mat>>
    /\ UNCHANGED <<goals, shares, nextShare, calls>>

\* the storage calls of each route, in the order it makes them
CreateCalls == {"none", "save", "budget"}
UpdateCalls == {"none", "find", "revert", "write", "apply"}
DeleteCalls == {"none", "find", "revert", "remove"}

StoragePosts ==
    {Tx("u1", <<"a">>, 1, ty, "c1", FirstDay, FALSE, NoDay, "b1") : ty \in Types}

StorageEdits == {[amount |-> 2], [budgetId |-> "b2"]}

NextStorage ==
    \/ \E data \in StoragePosts, f \in CreateCalls :
          nextId <= MaxBookTx /\ CreateTransactionWith("u1", data, f)
    \/ \E id \in TxIds, body \in StorageEdits, f \in UpdateCalls :
          UpdateTransactionWith("u1", id, body, f)
    \/ \E id \in TxIds, f \in DeleteCalls : DeleteTransactionWith("u1", id, f)

SpecStorage == InitBook /\ [][NextStorage]_vars

\* ------------------- the routes and the engine, storage calls interleaved
\* a transaction request between its storage calls
TxCall(pc, op, u, id, doc, body) ==
    [pc |-> pc, op |-> op, by |-> u, id |-> id, doc |-> doc, body |-> body]

InFlightOn(id) == \E k \in Clients : calls[k].pc # "idle" /\ calls[k].id = id

OwedFor(h, id, bs, doc, sign) ==
    IF Adjusts(doc) THEN Owed(h, id, bs, doc.budgetId, sign * doc.amount) ELSE h

\* POST /api/transactions: await transaction.save()
TxCreateSave(k, u, data) ==
    LET doc == [data EXCEPT !.userId = u]
    IN  /\ calls[k].pc = "idle"
        /\ nextId <= MaxTx
        /\ ~(doc.isRecurring /\ doc.recurringDay = NoDay)
        /\ txs' = Insert(txs, nextId, doc)
        /\ nextId' = nextId + 1
        /\ calls' = IF Adjusts(doc)
                    THEN [calls EXCEPT ![k] = TxCall("apply", "create", u, nextId, doc, <<>>)]
                    ELSE calls
        /\ resp' = IF Adjusts(doc) THEN resp ELSE TransactionAnswer("create", u, 201)
        /\ UNCHANGED <<budgets, today, runners, mat, last, pre, hist, report>>
        /\ UNCHANGED <<goals, shares, nextShare>>

\* PUT and DELETE /api/transactions/:id: await Transaction.findOne({_id,
\* userId}), for a transaction no other request is working on
TxFind(k, op, u, id, body) ==
    LET found == id \in DOMAIN txs /\ txs[id].userId = u
    IN  /\ calls[k].pc = "idle"
        /\ ~InFlightOn(id)
        /\ calls' = IF found
                    THEN [calls EXCEPT ![k] =
                            TxCall(IF Adjusts(txs[id]) THEN "revert"
                                   ELSE IF op = "update" THEN "write" ELSE "remove",
                                   op, u, id, txs[id], body)]
                    ELSE calls
        /\ resp' = IF found THEN resp ELSE TransactionAnswer(op, u, 404)
        /\ UNCHANGED <<goals, shares, nextShare>>
        /\ UNCHANGED financeVars

\* await Budget.findByIdAndUpdate(old.budgetId, {$inc: {spent: -old.amount}})
TxRevert(k) ==
    /\ calls[k].pc = "revert"
    /\ budgets' = Reverted(budgets, calls[k].doc)
    /\ hist' = OwedFor(hist, calls[k].id, budgets, calls[k].doc, -1)
    /\ calls' = [calls EXCEPT ![k].pc = IF calls[k].op = "update" THEN "write" ELSE "remove"]
    /\ UNCHANGED <<txs, nextId, today, runners, mat, last, pre, report>>
    /\ UNCHANGED <<goals, shares, nextShare, resp>>

\* await Transaction.findByIdAndUpdate(id, {...req.body}, {new: true})
TxWrite(k) ==
    /\ calls[k].pc = "write"
    /\ LET c       == calls[k]
           updated == Merge(txs[c.id], c.body)
       IN  /\ txs' = [txs EXCEPT ![c.id] = updated]
           /\ calls' = [calls EXCEPT ![k] = IF Adjusts(updated)
                                            THEN [c EXCEPT !.pc = "apply", !.doc = updated]
                                            ELSE NoCall]
           /\ resp' = IF Adjusts(updated) THEN resp ELSE TransactionAnswer("update", c.by, 200)
    /\ UNCHANGED <<budgets, nextId, today, runners, mat, last, pre, hist, report>>
    /\ UNCHANGED <<goals, shares, nextShare>>

\* await Transaction.findByIdAndDelete(id)
TxRemove(k) ==
    /\ calls[k].pc = "remove"
    /\ txs' = Remove(txs, calls[k].id)
    /\ calls' = [calls EXCEPT ![k] = NoCall]
    /\ resp' = TransactionAnswer("delete", calls[k].by, 200)
    /\ UNCHANGED <<budgets, nextId, today, runners, mat, last, pre, hist, report>>
    /\ UNCHANGED <<goals, shares, nextShare>>

\* await Budget.findByIdAndUpdate(doc.budgetId, {$inc: {spent: doc.amount}})
\* of POST and PUT
TxApply(k) ==
    /\ calls[k].pc = "apply"
    /\ budgets' = Applied(budgets, calls[k].doc)
    /\ hist' = OwedFor(hist, calls[k].id, budgets, calls[k].doc, 1)
    /\ calls' = [calls EXCEPT ![k] = NoCall]
    /\ resp' = TransactionAnswer(calls[k].op, calls[k].by,
                                 IF calls[k].op = "create" THEN 201 ELSE 200)
    /\ UNCHANGED <<txs, nextId, today, runners, mat, last, pre, report>>
    /\ UNCHANGED <<goals, shares, nextShare>>

\* a monthly expense on budget b1, due on the first day
RaceTemplate == Tx("u1", <<"a">>, 1, "expense", "c1", FirstDay, TRUE, 1, "b1")

RacePosts == {Tx("u1", <<"a">>, 1, "expense", "c1", FirstDay, FALSE, NoDay, "b1")}

RaceEdits == {[amount |-> 2]}

InitRace == InitWith(<<RaceTemplate>>)

NextRace ==
    \/ \E k \in Clients, data \in RacePosts : TxCreateSave(k, "u1", data)
    \/ \E k \in Clients, id \in TxIds, body \in RaceEdits : TxFind(k, "update", "u1", id, body)
    \/ \E k \in Clients, id \in TxIds : TxFind(k, "delete", "u1", id, <<>>)
    \/ \E k \in Clients : TxRevert(k)
    \/ \E k \in Clients : TxWrite(k)
    \/ \E k \in Clients : TxRemove(k)
    \/ \E k \in Clients : TxApply(k)
    \/ StartRun("cron")
    \/ CheckStep("cron")
    \/ SaveStep("cron")
    \/ IncStep("cron")

SpecRace == InitRace /\ [][NextRace]_vars

\* ------------------------- the recompute of a budget, call by call
\* PATCH /api/budgets/:id/recalculate: await Budget.findOne({_id, userId})
RecalcFind(k, u, b) ==
    LET found == b \in DOMAIN budgets /\ budgets[b].userId = u
    IN  /\ calls[k].pc = "idle"
        /\ calls' = IF found
                    THEN [calls EXCEPT ![k] =
                            TxCall("aggregate", "recalculate", u, 0,
                                   [budgetId |-> b, total |-> 0], <<>>)]
                    ELSE calls
        /\ resp' = IF found THEN resp ELSE TransactionAnswer("recalculate", u, 404)
        /\ UNCHANGED <<goals, shares, nextShare>>
        /\ UNCHANGED financeVars

\* await Transaction.aggregate([{$match ...}, {$group ... $sum: '$amount'}])
RecalcAggregate(k) ==
    /\ calls[k].pc = "aggregate"
    /\ calls' = [calls EXCEPT
                   ![k].pc = IF calls[k].doc.budgetId \in DOMAIN budgets
                             THEN "save" ELSE "idle",
                   ![k].doc.total =
                       IF calls[k].doc.budgetId \in DOMAIN budgets
                       THEN SumAmounts(txs, RecalculateMatch(txs, budgets,
                                                             calls[k].doc.budgetId))
                       ELSE 0]
    /\ UNCHANGED <<goals, shares, nextShare, resp>>
    /\ UNCHANGED financeVars

\* budget.spent = newSpentAmount; await budget.save()
RecalcSave(k) ==
    /\ calls[k].pc = "save"
    /\ budgets' = IF calls[k].doc.budgetId \in DOMAIN budgets
                  THEN [budgets EXCEPT ![calls[k].doc.budgetId].spent = calls[k].doc.total]
                  ELSE budgets
    /\ calls' = [calls EXCEPT ![k] = NoCall]
    /\ resp' = TransactionAnswer("recalculate", calls[k].by, 200)
    /\ UNCHANGED <<txs, nextId, today, runners, mat, last, pre, hist, report>>
    /\ UNCHANGED <<goals, shares, nextShare>>

NextRecalc ==
    \/ \E k \in Clients, data \in RacePosts : TxCreateSave(k, "u1", data)
    \/ \E k \in Clients, id \in TxIds, body \in RaceEdits : TxFind(k, "update", "u1", id, body)
    \/ \E k \in Clients, id \in TxIds : TxFind(k, "delete", "u1", id, <<>>)
    \/ \E k \in Clients : TxRevert(k)
    \/ \E k \in Clients : TxWrite(k)
    \/ \E k \in Clients : TxRemove(k)
    \/ \E k \in Clients : TxApply(k)
    \/ \E k \in Clients, u \in Users : RecalcFind(k, u, "b1")
    \/ \E k \in Clients : RecalcAggregate(k)
    \/ \E k \in Clients : RecalcSave(k)

SpecRecalc == InitBook /\ [][NextRecalc]_vars

\* ------------------------------------- the engine through a calendar month
\* months are counted from January 2023: month 2 is February 2023, month 14
\* February 2024
MonthOfYear(m) == ((m - 1) % 12) + 1

YearOf(m) == 2023 + ((m - 1) \div 12)

LeapYear(y) == (y % 4 = 0 /\ y % 100 # 0) \/ y % 400 = 0

\* the last value today.getDate() takes in month m
DaysIn(m) ==
    IF MonthOfYear(m) = 2 THEN (IF LeapYear(YearOf(m)) THEN 29 ELSE 28)
    ELSE IF MonthOfYear(m) \in {4, 6, 9, 11} THEN 30
    ELSE 31

\* recurringDay: {type: Number, min: 1, max: 31}
RecurringDays == 1 .. 31

\* a 31-day, a 28-day, a 30-day and a 29-day month
CalendarMonths == {1, 2, 4, 14}

\* cron.schedule('1 0 * * *'): the run of the day, once a day
DailyRun ==
    /\ ~last.ran
    /\ RunEngine(NoFailure)

\* midnight passes inside the month, after the run of the day
Midnight ==
    /\ last.ran
    /\ today.d < DaysIn(today.m)
    /\ \A r \in Runners : runners[r].pc = "idle"
    /\ today' = [today EXCEPT !.d = @ + 1]
    /\ last' = [op |-> "nextday", id |-> 0, bud |-> NoBudget, seq |-> 0, ran |-> FALSE,
                old |-> NoOld]
    /\ pre' = Spent(budgets)
    /\ report' = NoReport
    /\ UNCHANGED <<txs, budgets, nextId, runners, mat, hist>>
    /\ UNCHANGED shareVars

\* one template of u1 on file when the month begins
InitCalendar ==
    \E m \in CalendarMonths, rday \in RecurringDays :
        /\ InitFinanceOn(<<Tx("u1", <<"a">>, 1, "expense", "c1", [m |-> m, d |-> 1],
                              TRUE, rday, NoBudget)>>,
                         [m |-> m, d |-> 1])
        /\ InitSharing

NextCalendar ==
    \/ DailyRun
    \/ Midnight

SpecCalendar == InitCalendar /\ [][NextCalendar]_vars

\* ================================================================ claims
\* the materializations of template t on day d, and those still on file
MadeFrom(t, d) == {c \in mat : c[1] = t /\ c[2] = d}
LiveFrom(t, d) == {c \in MadeFrom(t, d) : c[3] \in DOMAIN txs}

\* C1: two calls of processRecurringTransactions in a row on one day, with
\* templates due: the second creates nothing, reports processed = 0 and
\* errors = 0, and every due template has exactly one materialized transaction.
C1_SecondRunIdle ==
    (last.op = "run" /\ last.seq = 2 /\ report.due # {}) =>
        /\ report.returned
        /\ report.processed = 0
        /\ report.errors = 0
        /\ report.created = {}
        /\ \A t \in report.due : Cardinality(LiveFrom(t, today)) = 1

\* C2: a run that starts with no transaction dated today creates one
\* transaction for each due template, whatever the templates have in common.
C2_OnePerDueTemplate ==
    (last.op = "run" /\ report.clean) =>
        /\ Cardinality(report.created) = Cardinality(report.due)
        /\ \A t \in report.due : Cardinality({c \in report.created : c[1] = t}) = 1

\* C4: over engine runs and user edits and deletes, the engine creates at
\* most one transaction from a template on one day (stated for the runs that
\* found the template with a description free of pattern characters).
C4_AtMostOncePerDay ==
    \A t \in TxIds, d \in Dates :
        Cardinality({c \in MadeFrom(t, d) : c[4] = <<"a">>}) <= 1

\* the amounts of the due expense templates that name budget b
DueAmount(due, b) ==
    SumAmounts(txs, {t \in due : txs[t].type = "expense" /\ txs[t].budgetId = b})

\* C6: the first engine run of a day adds to a budget's spent exactly the
\* amounts of the due expense templates that name it, and every later run of
\* that day leaves spent as it was.
C6_SpentOncePerDay ==
    (last.op = "run" /\ report.returned) =>
        \A b \in DOMAIN budgets :
            budgets[b].spent - pre[b] =
                IF report.first THEN DueAmount(report.due, b) ELSE 0

\* the entries of the detail list for template t
EntriesFor(t) == {i \in 1..Len(report.details) : report.details[i].originalId = t}

C3_ConcurrentAtMostOnce ==
    \A t \in DOMAIN txs :
        (txs[t].isRecurring /\ txs[t].description = <<"a">>) =>
            Cardinality(MadeFrom(t, today)) <= 1

\* the sum the ledger is meant to hold for budget b: the amounts of the
\* expense transactions that name b and are dated within its month
ExpensesOf(b) ==
    {id \in DOMAIN txs : /\ txs[id].budgetId = b
                         /\ txs[id].type = "expense"
                         /\ txs[id].date.m = budgets[b].month}

\* every transaction that names a budget names one of its own user
OwnBudgetsOnly ==
    \A id \in DOMAIN txs :
        txs[id].budgetId \in DOMAIN budgets =>
            budgets[txs[id].budgetId].userId = txs[id].userId

\* C5: after any sequence of transaction creates, updates and deletes, the
\* spent of every budget is the value a recalculation would store (stated for
\* ledgers in which users name their own budgets only).
C5_SpentIsRecomputed ==
    OwnBudgetsOnly =>
        \A b \in DOMAIN budgets :
            budgets[b].spent = SumAmounts(txs, RecalculateMatch(txs, budgets, b))

\* C7: for an expense on an existing budget B, create adds its amount to
\* B.spent, an update that leaves it an expense on B changes B.spent by the
\* new amount less the old, delete takes its amount off; and once a
\* transaction is deleted, all its handlers together have added 0 to every
\* budget.
C7_CreateUpdateDelete ==
    /\ (/\ last.op = "create"
        /\ txs[last.id].type = "expense"
        /\ last.bud \in DOMAIN budgets) =>
            budgets[last.bud].spent = pre[last.bud] + txs[last.id].amount
    /\ (/\ last.op = "update"
        /\ last.old.type = "expense" /\ last.bud \in DOMAIN budgets
        /\ txs[last.id].type = "expense" /\ txs[last.id].budgetId = last.bud) =>
            budgets[last.bud].spent - pre[last.bud] = txs[last.id].amount - last.old.amount
    /\ (/\ last.op = "delete"
        /\ last.old.type = "expense" /\ last.bud \in DOMAIN budgets) =>
            budgets[last.bud].spent = pre[last.bud] - last.old.amount
    /\ \A id \in TxIds :
          (id < nextId /\ id \notin DOMAIN txs) =>
              \A b \in BudgetIds : hist[id].net[b] = 0

\* an expense on b1 was created, had its amount changed, and is now deleted
C7_Witness ==
    /\ last.op = "delete"
    /\ last.old.type = "expense"
    /\ last.bud = "b1"
    /\ hist[last.id].amended
    /\ budgets["b1"].spent # pre["b1"]

\* C8: a recalculation stores the sum of the amounts of all expense
\* transactions that name the budget and are dated within its month.
C8_RecomputeExact ==
    last.op = "recalculate" =>
        budgets[last.bud].spent = SumAmounts(txs, ExpensesOf(last.bud))

\* C9: creating, editing or deleting a recurring template changes the spent
\* of no budget.
C9_TemplateNotSpent ==
    (\/ last.op = "create" /\ txs[last.id].isRecurring
     \/ last.op = "update" /\ (last.old.isRecurring \/ txs[last.id].isRecurring)
     \/ last.op = "delete" /\ last.old.isRecurring) =>
        Spent(budgets) = pre

\* C11: every completed run of processRecurringTransactions hands back the
\* aggregate result (counts and detail list), with zero counts and an empty
\* list when no template is due.
C11_AlwaysReturnsAggregate ==
    last.op = "run" =>
        /\ report.returned
        /\ DueTemplates(txs, today) = {} =>
              report.processed = 0 /\ report.errors = 0 /\ report.details = <<>>

\* the fixed table of the specification: what each role may do
RoleTable(role) ==
    [canAddAmount    |-> role \in {"contributor", "co-owner"},
     canEdit         |-> role = "co-owner",
     canDelete       |-> FALSE,
     canInviteOthers |-> role = "co-owner"]

\* C12: in every reachable state, every GoalShare's permissions are the fixed
\* table applied to its current role, after any sequence of invite, accept,
\* reject and updateRole.
C12_PermissionsFollowRole ==
    \A s \in DOMAIN shares : shares[s].permissions = RoleTable(shares[s].role)

\* C12 witness: an accepted share whose role was just changed to contributor.
C12_Witness ==
    /\ resp.op = "role" /\ resp.code = 200
    /\ resp.share \in DOMAIN shares
    /\ shares[resp.share].status = "accepted"
    /\ shares[resp.share].role = "contributor"
    /\ shares[resp.share].permissions.canAddAmount

\* C13: in every reachable state there is at most one GoalShare per
\* (goal, sharedWith) pair, whatever the interleaving of concurrent invites.
C13_OneSharePerPair ==
    \A s1, s2 \in DOMAIN shares :
        (shares[s1].goal = shares[s2].goal /\ shares[s1].sharedWith = shares[s2].sharedWith)
            => s1 = s2

\* C13 witness: two invites of the same user passed the check together, and
\* the second save was turned down by the index.
C13_Witness ==
    /\ resp.op = "share" /\ resp.code = 500
    /\ \E s \in DOMAIN shares :
          shares[s].goal = resp.goal /\ shares[s].sharedWith = resp.email[1]

\* u holds an accepted share on g that lets it invite others
HoldsInvite(u, g) ==
    \E s \in DOMAIN shares :
        /\ shares[s].goal = g /\ shares[s].sharedWith = u
        /\ shares[s].status = "accepted"
        /\ shares[s].permissions.canInviteOthers

\* C14: a user who is not the goal owner can invite, change the role of
\* another user's share, or remove another user's share only while holding an
\* accepted share with canInviteOthers on that goal; otherwise the call fails
\* with Forbidden and no GoalShare is created, changed or deleted.
C14_OnlyManagersManage ==
    [][LET r == resp'
       IN  /\ (/\ r.op = "share" /\ r.role \in Roles
               /\ r.goal \in DOMAIN goals
               /\ goals[r.goal].userId # r.by
               /\ ~HoldsInvite(r.by, r.goal))
                  => (r.code = 403 /\ shares' = shares)
           /\ (/\ r.op \in {"role", "remove"}
               /\ r.op = "role" => r.role \in Roles
               /\ r.share \in DOMAIN shares
               /\ shares[r.share].sharedWith # r.by
               /\ shares[r.share].owner # r.by
               /\ ~HoldsInvite(r.by, shares[r.share].goal))
                  => (r.code = 403 /\ shares' = shares)]_vars

\* C15: an authorized invite fails and creates no GoalShare when the e-mail
\* resolves to no user, when the invitee is the inviter, or when a GoalShare
\* for (goal, invitee) exists in any status; otherwise it creates exactly one
\* GoalShare, pending, with the permissions of the given role.
C15_InviteOutcome ==
    [][LET r == resp'
       IN  (/\ r.op = "share" /\ r.role \in Roles
            /\ r.goal \in DOMAIN goals
            /\ (goals[r.goal].userId = r.by \/ HoldsInvite(r.by, r.goal)))
           => IF \/ r.email[1] \notin People
                 \/ r.email[1] = r.by
                 \/ \E s \in DOMAIN shares :
                       shares[s].goal = r.goal /\ shares[s].sharedWith = r.email[1]
              THEN r.code # 200 /\ shares' = shares
              ELSE /\ r.code = 200
                   /\ \E n \in DOMAIN shares' \ DOMAIN shares :
                         /\ DOMAIN shares' = DOMAIN shares \cup {n}
                         /\ \A s \in DOMAIN shares : shares'[s] = shares[s]
                         /\ shares'[n] =
                               [goal |-> r.goal, owner |-> goals[r.goal].userId,
                                sharedWith |-> r.email[1], role |-> r.role,
                                status |-> "pending",
                                permissions |-> RoleTable(r.role),
                                acceptedAt |-> NoDate]]_vars

\* C15 witness: an accepted co-owner invited a third user by an address typed
\* in upper case, and the share was created.
C15_Witness ==
    /\ resp.op = "share" /\ resp.code = 200
    /\ resp.by # "u1"
    /\ resp.email[2] = "upper"
    /\ resp.share \in DOMAIN shares
    /\ shares[resp.share].status = "pending"

\* C16: a GoalShare's status changes only from pending to accepted or to
\* rejected, only through a respond call of its sharedWith user, and never
\* again after that, also when accept and reject run concurrently.
C16_StatusSettlesOnce ==
    [][\A s \in DOMAIN shares \cap DOMAIN shares' :
          shares'[s].status # shares[s].status
             => /\ shares[s].status = "pending"
                /\ shares'[s].status \in {"accepted", "rejected"}
                /\ resp'.op \in {"accept", "reject"}
                /\ resp'.share = s
                /\ resp'.by = shares[s].sharedWith]_vars

\* C17: updateRole fails with Forbidden and leaves role and permissions
\* unchanged whenever the acting user is the share's own sharedWith user, for
\* every current role, requested role and status.
C17_NoSelfPromotion ==
    [][LET r == resp'
       IN  (/\ r.op = "role" /\ r.role \in Roles
            /\ r.share \in DOMAIN shares
            /\ shares[r.share].sharedWith = r.by)
           => (r.code = 403 /\ shares' = shares)]_vars

\* C17 witness: an accepted co-owner asked for another role on its own share
\* and was refused.
C17_Witness ==
    /\ resp.op = "role" /\ resp.code = 403
    /\ resp.share \in DOMAIN shares
    /\ shares[resp.share].sharedWith = resp.by
    /\ shares[resp.share].status = "accepted"
    /\ shares[resp.share].role = "co-owner"
    /\ resp.role = "viewer"

\* C18: for every existing GoalShare in any status, a remove call by its own
\* sharedWith user succeeds and deletes exactly that share, whatever happened
\* to the goal since the invite.
C18_SelfRemovalAlways ==
    [][LET r == resp'
       IN  (/\ r.op = "remove"
            /\ r.share \in DOMAIN shares
            /\ shares[r.share].sharedWith = r.by)
           => (r.code = 200 /\ shares' = Remove(shares, r.share))]_vars

\* C19: the permissions answered for (goal, user): all four capabilities for
\* the owner; for a non-owner exactly the permissions of its accepted share,
\* with canDelete false; Forbidden for a non-owner with no accepted share.
C19_Authorize ==
    (resp.op = "permissions" /\ resp.goal \in DOMAIN goals) =>
        IF goals[resp.goal].userId = resp.by
        THEN resp.code = 200 /\ resp.data = [canAddAmount |-> TRUE, canEdit |-> TRUE,
                                             canDelete |-> TRUE, canInviteOthers |-> TRUE]
        ELSE IF \E s \in DOMAIN shares :
                   /\ shares[s].goal = resp.goal /\ shares[s].sharedWith = resp.by
                   /\ shares[s].status = "accepted"
        THEN /\ resp.code = 200
             /\ ~resp.data.canDelete
             /\ \E s \in DOMAIN shares :
                   /\ shares[s].goal = resp.goal /\ shares[s].sharedWith = resp.by
                   /\ shares[s].status = "accepted"
                   /\ resp.data = shares[s].permissions
        ELSE resp.code = 403

\* C19 witness: an accepted co-owner asked for its permissions and got them.
C19_Witness ==
    /\ resp.op = "permissions" /\ resp.code = 200
    /\ resp.goal \in DOMAIN goals
    /\ goals[resp.goal].userId # resp.by
    /\ resp.data.canInviteOthers

\* u holds an accepted share on g that grants the capability
HoldsCapability(u, g, cap) ==
    \E s \in DOMAIN shares :
        /\ shares[s].goal = g /\ shares[s].sharedWith = u
        /\ shares[s].status = "accepted"
        /\ shares[s].permissions[cap]

\* C20: a goal is changed by add-amount or edit, or removed by delete, only
\* when the caller is the goal owner or holds an accepted share granting the
\* matching capability (delete is owner-only); for every other caller the goal
\* is left unchanged.
C20_OnlyAuthorizedMutate ==
    [][goals' # goals =>
          LET r == resp'
          IN  /\ r.op \in {"add", "edit", "delete"}
              /\ r.goal \in DOMAIN goals
              /\ \/ goals[r.goal].userId = r.by
                 \/ r.op = "add" /\ HoldsCapability(r.by, r.goal, "canAddAmount")
                 \/ r.op = "edit" /\ HoldsCapability(r.by, r.goal, "canEdit")]_vars

\* C20 witness: a user holding an accepted viewer share asked for an edit and
\* the goal stayed as it was.
C20_Witness ==
    /\ resp.op = "edit" /\ resp.code = 404
    /\ resp.goal \in DOMAIN goals
    /\ \E s \in DOMAIN shares :
          /\ shares[s].goal = resp.goal /\ shares[s].sharedWith = resp.by
          /\ shares[s].status = "accepted" /\ shares[s].role = "viewer"

\* C21: a non-owner holding an accepted share with canAddAmount on a goal can
\* add an amount to it: the call succeeds and currentAmount grows by the
\* amount (1 in every call made here).
C21_ContributorAdds ==
    [][LET r == resp'
       IN  (/\ r.op = "add"
            /\ r.goal \in DOMAIN goals
            /\ goals[r.goal].userId # r.by
            /\ HoldsCapability(r.by, r.goal, "canAddAmount"))
           => /\ r.code = 200
              /\ r.goal \in DOMAIN goals'
              /\ goals'[r.goal].currentAmount = goals[r.goal].currentAmount + 1]_vars

\* C22: add-amount on an active goal sets status to completed in the same
\* call exactly when the new currentAmount reaches targetAmount; it never
\* changes the status of a completed goal nor of a paused goal.
C22_CompletesOnlyActive ==
    [][LET r == resp'
       IN  (r.op = "add" /\ r.code = 200 /\ r.goal \in DOMAIN goals)
           => LET old == goals[r.goal]
                  new == goals'[r.goal]
              IN  IF old.status = "active"
                  THEN new.status = IF new.currentAmount >= new.targetAmount
                                    THEN "completed" ELSE "active"
                  ELSE new.status = old.status]_vars

\* C23: a transaction has a recurringDay, a day between 1 and 31, if and only
\* if it is recurring; this holds of every stored transaction after creates,
\* updates and materializations.
C23_DayIffRecurring ==
    \A id \in DOMAIN txs :
        txs[id].isRecurring <=> (txs[id].recurringDay # NoDay /\ txs[id].recurringDay \in 1..31)

\* C25: once a budget B is deleted no transaction references B; the delete
\* removes no transaction and changes no field of any but budgetId.
C25_DeleteDetaches ==
    [][last'.op = "deleteBudget" =>
          /\ last'.bud \notin DOMAIN budgets'
          /\ DOMAIN txs' = DOMAIN txs
          /\ \A id \in DOMAIN txs :
                /\ txs'[id].budgetId # last'.bud
                /\ \A f \in DOMAIN txs[id] \ {"budgetId"} : txs'[id][f] = txs[id][f]]_vars

\* a budget was just deleted that a stored expense had been put on
C25_Witness ==
    /\ last.op = "deleteBudget"
    /\ \E id \in DOMAIN txs :
          hist[id].net[last.bud] > 0 /\ txs[id].budgetId = NoBudget

\* C29: an update takes the old amount off the budget the expense was on and
\* puts the new amount on the budget the updated expense is on, two
\* adjustments that do not depend on each other; every other budget keeps its
\* spent. From expense to income only the first is made, from income to
\* expense only the second.
C29_TwoAdjustments ==
    last.op = "update" =>
        \A b \in DOMAIN budgets :
            budgets[b].spent =
                pre[b]
                - (IF last.old.type = "expense" /\ last.bud = b THEN last.old.amount ELSE 0)
                + (IF txs[last.id].type = "expense" /\ txs[last.id].budgetId = b
                   THEN txs[last.id].amount ELSE 0)

\* an expense of 1 on b1 was just moved to b2 with amount 2
C29_Witness ==
    /\ last.op = "update"
    /\ last.old.type = "expense" /\ last.old.amount = 1 /\ last.bud = "b1"
    /\ txs[last.id].type = "expense" /\ txs[last.id].amount = 2
    /\ txs[last.id].budgetId = "b2"
    /\ {"b1", "b2"} \subseteq DOMAIN budgets
    /\ budgets["b1"].spent = pre["b1"] - 1
    /\ budgets["b2"].spent = pre["b2"] + 2

\* C30: a transaction the engine creates is not recurring and has the owner,
\* amount, type, category and budget reference of a stored transaction that
\* is recurring and whose recurringDay is the run's day; a run changes and
\* deletes no template.
C30_CopiesTemplate ==
    [][last'.op = "run" =>
          /\ \A id \in DOMAIN txs' \ DOMAIN txs :
                /\ txs'[id].isRecurring = FALSE
                /\ \E t \in DOMAIN txs :
                      /\ txs[t].isRecurring /\ txs[t].recurringDay = today.d
                      /\ txs'[id].userId = txs[t].userId
                      /\ txs'[id].amount = txs[t].amount
                      /\ txs'[id].type = txs[t].type
                      /\ txs'[id].category = txs[t].category
                      /\ txs'[id].budgetId = txs[t].budgetId
          /\ \A t \in DOMAIN txs :
                txs[t].isRecurring => (t \in DOMAIN txs' /\ txs'[t] = txs[t])]_vars

\* C24: there is at most one budget per owner, category and period, whatever
\* the order in which budget creates and updates and their storage calls
\* take place.
C24_OneBudgetPerPeriod ==
    \A b, c \in DOMAIN budgets :
        BudgetKey(budgets[b]) = BudgetKey(budgets[c]) => b = c

\* a create or an update passed its own look-up and was then turned down by
\* the storage because another call had taken the period in between
C24_Witness ==
    /\ resp.op \in {"createBudget", "updateBudget"}
    /\ resp.code = 500
    /\ Cardinality(DOMAIN budgets) > Cardinality(DOMAIN InitBudgets)

\* C26: when the transaction of a create is written and the adjustment of
\* its budget fails, the create still reports success and the transaction
\* stays on file.
C26_CreateSurvivesBudgetFailure ==
    [][LET new == DOMAIN txs' \ DOMAIN txs
       IN  (/\ resp'.op = "create"
            /\ \E id \in new : Adjusts(txs'[id]) /\ txs'[id].budgetId \in DOMAIN budgets
            /\ budgets' = budgets)
           => resp'.code = 201]_vars

\* C27: when an update or a delete of a transaction reports failure, it has
\* changed neither the transaction nor the spent of any budget.
C27_FailureChangesNothing ==
    [][(resp'.op \in {"update", "delete"} /\ resp'.code = 500)
           => (txs' = txs /\ Spent(budgets') = Spent(budgets))]_vars

\* what the handlers of the transactions ids have sent to budget b in all
RECURSIVE NetOn(_, _, _)
NetOn(h, ids, b) ==
    IF ids = {} THEN 0
    ELSE LET i == CHOOSE x \in ids : TRUE
         IN  h[i].net[b] + NetOn(h, ids \ {i}, b)

\* C28: when creates, updates and deletes of distinct transactions and engine
\* materializations adjust the same budget at the same time, no adjustment is
\* lost: its spent is its first value plus everything that was sent to it.
C28_NoAdjustmentLost ==
    \A b \in DOMAIN budgets :
        budgets[b].spent = InitBudgets[b].spent + NetOn(hist, TxIds, b)

\* one request has written its expense and not yet put it on b1, another has
\* taken its expense off b1 and not yet written, and a run of the engine has
\* saved a copy it has not yet put on b1
C28_Witness ==
    \E k, j \in Clients :
        /\ calls[k].pc = "apply" /\ calls[k].doc.budgetId = "b1"
        /\ calls[j].pc \in {"write", "remove"} /\ calls[j].doc.budgetId = "b1"
        /\ \E r \in Runners : runners[r].pc = "inc"

\* C31: once a goal is deleted by its owner, no GoalShare of that goal is
\* left pending or accepted (each is removed or rejected), so no invitation
\* to the deleted goal can be accepted afterwards.
C31_NoLiveShareOfDeletedGoal ==
    \A s \in DOMAIN shares :
        shares[s].goal \notin DOMAIN goals => shares[s].status = "rejected"

\* C34: the spent of a budget is changed only by its owner's own
\* transactions and recompute: a create, update or delete by another user
\* changes no budget of this one, whatever budget reference it carries.
C34_OwnBudgetsOnly ==
    [][\A b \in DOMAIN budgets \cap DOMAIN budgets' :
          (/\ budgets'[b].spent # budgets[b].spent
           /\ last'.op \in {"create", "update", "delete"})
          => LET doc == IF last'.op = "create" THEN txs'[last'.id] ELSE txs[last'.id]
             IN  doc.userId = budgets[b].userId]_vars

\* C35: every budget has spent >= 0 in every reachable state, after any
\* sequence of creates, updates, deletes and recomputes.
C35_SpentNotNegative ==
    \A b \in DOMAIN budgets : budgets[b].spent >= 0

\* C38: no GoalShare names the owner of its goal as sharedWith, whoever sent
\* the invite.
C38_OwnerIsNoCollaborator ==
    \A s \in DOMAIN shares :
        shares[s].goal \in DOMAIN goals => shares[s].sharedWith # goals[shares[s].goal].userId

\* C39: a GoalShare has acceptedAt set if and only if its status is accepted,
\* for any sequence and any interleaving of accept and reject calls on it.
C39_AcceptedAtIffAccepted ==
    \A s \in DOMAIN shares :
        (shares[s].acceptedAt # NoDate) <=> (shares[s].status = "accepted")

\* C37: no stored goal is active with currentAmount >= targetAmount, after
\* any sequence of goal edits (of targetAmount and of status too) and
\* add-amount calls.
C37_NoActiveGoalAtTarget ==
    \A g \in DOMAIN goals :
        ~(goals[g].status = "active" /\ goals[g].currentAmount >= goals[g].targetAmount)

\* C33: once a template is paused and until it is resumed, no run of the
\* engine materializes a transaction from it, also on its recurringDay: a run
\* that comes right after the pause creates nothing from that template.
C33_PausedNotMaterialized ==
    [][(last.op = "pause" /\ last'.op = "run")
           => \A c \in mat' \ mat : c[1] # last.id]_vars

\* C32: the monthlyTargetRemaining a goal read returns is 0 when the goal is
\* completed or its end date has passed, and remainingAmount / monthsRemaining
\* otherwise.
C32_MonthlyTargetRemaining ==
    resp.op \in {"get", "list"}
        => \A g \in DOMAIN resp.data :
              LET d == resp.data[g]
              IN  d.monthlyTargetRemaining =
                     IF d.status = "completed" \/ d.endDate <= d.at
                     THEN Ratio(0, 1)
                     ELSE Ratio(d.remainingAmount, d.monthsRemaining)

\* C36: a recompute of budget b1 interleaved with the creates, updates and
\* deletes that adjust b1 overwrites none of their adjustments: once every
\* request has completed, b1.spent is the sum of the amounts of the expenses
\* that reference b1 and are dated in its month.
C36_RecomputeKeepsAdjustments ==
    AllIdle => budgets["b1"].spent =
                  SumAmounts(txs, RecalculateMatch(txs, budgets, "b1"))

\* C40: with one run of the engine on every day of a month, each template on
\* file through the whole month has exactly one materialization dated in that
\* month once the run of the month's last day is over, whatever its
\* recurringDay (1..31) and the length of the month (28..31).
C40_OncePerMonth ==
    (today.d = DaysIn(today.m) /\ last.ran)
        => \A t \in DOMAIN txs :
              txs[t].isRecurring
                 => Cardinality({c \in mat : c[1] = t /\ c[2].m = today.m}) = 1

====
